---- MODULE Spec2Model ----
(***************************************************************************)
(* A verification model of the aris storage engine core:                   *)
(*   - the block-framed write-ahead log (src/src/db/wal.rs),               *)
(*   - the segmented value log (src/src/vlog/mod.rs),                      *)
(*   - the optimistic version lock (src/src/utils/art/node.rs,             *)
(*     src/src/utils/opt_lock.rs) and the ART insert that uses it          *)
(*     (src/src/utils/art/art_impl.rs),                                    *)
(*   - the single-writer skip list (src/src/memtable/skip_list.rs),        *)
(*   - the SSTable data block builder and iterator                         *)
(*     (src/src/table/block_builder.rs, src/src/table/block.rs).           *)
(* Every component has its own variables, initial condition, actions and   *)
(* specification; a specification leaves the other components untouched.   *)
(***************************************************************************)
EXTENDS Integers, Sequences, FiniteSets, TLC

VARIABLES
    \* ---- write-ahead log ----
    wal_file,           \* the log file: the sequence of units written, each at its offset
    written_block_len,  \* ReLogWriter.written_block_len
    block_offset,       \* ReLogWriter.block_offset
    wal_written,        \* the payloads whose write() returned Ok, in order
    wal_bad,            \* 0, or the index in wal_file of the record damaged on disk
    wal_read,           \* the result of the last ReLogReader.read, or NoRead
    wal_failed,         \* -1, or the number of payloads written before the write() that failed
    \* ---- value log ----
    vlog_dir,           \* the directory: segment file id -> the bytes of NNNNNN.vlog
    max_fid,            \* LogFiles.max_fid
    max_file_size,      \* LogFiles.max_file_size
    current_file,       \* LogFiles.current_file: [fid, writen_len]
    active_files,       \* LogFiles.active_files: the ids of the sealed (read-only) files
    vlog_ptrs,          \* every (entry, pointer) that write_entry has returned
    vlog_created,       \* every segment opened as a new one: [fid, before, at]
    vlog_reopens,       \* how often the set was dropped and built again
    vlog_last_read,     \* the last read_entry: [ptr, src, res], or NoVlogRead
    \* ---- optimistic version lock ----
    version,            \* IntenalNode.version (AtomicU64)
    prefix_len,         \* IntenalNode.prefix_len, the counter of the test
    lock_pc,            \* per thread: where it is in its retry loop
    lock_snap,          \* per thread: the version check_version returned
    lock_tmp,           \* per thread: the prefix_len read for the increment
    lock_succ,          \* per thread: the write locks taken and released
    lock_err,           \* the errors write() has returned to some thread
    lock_final,         \* the final read guard: [done, ok, prefix_len]
    \* ---- skip list ----
    sl_head,            \* SkipList.head: level -> node (0 is the null pointer)
    sl_nodes,           \* the allocated nodes: [key, next], next: level -> node
    max_level,          \* SkipList.max_level
    sl_calls,           \* the keys insert() was called with, in order
    sl_panic,           \* insert() panicked
    sl_scan,            \* the last read, when a scan: [done, found, fwd, bwd]
    sl_seek,            \* the last seek: [done, target, valid, key]
    \* ---- SSTable data block ----
    bb_buf,             \* BlockBuilder.buf
    restarts,           \* BlockBuilder.restarts
    last_key,           \* BlockBuilder.last_key
    counter,            \* BlockBuilder.counter
    finished,           \* BlockBuilder.finished
    block_restart_interval, \* Config.block_restart_interval
    bb_added,           \* the (key, value) pairs added, in order
    blk_scan,           \* the last iteration of the finished block
    blk_seek,           \* the last seek on the finished block
    blk_prev,           \* the last prev() on the finished block, if no scan or seek came after it
    bb_step,            \* the last call made: [op, key]
    bb_panic,           \* an assertion of BlockBuilder failed
    \* ---- adaptive radix tree ----
    art_built,          \* Art::new() has been called
    art_root,           \* the root node: [version, prefix_len, children]
    art_pc,             \* per writer thread: where it is in insert
    art_guard,          \* per writer thread: the version its guard holds
    art_err,            \* per writer thread: the last error of insert_inner
    art_panics,         \* the panics that fired: <<thread (0 = main), site>>
    art_get,            \* per key: the result of the final get, or "none"
    \* skip list under one writer and lock-free readers: the list, the
    \* writer's position inside insert, the readers' positions inside
    \* contains, the keys whose insert returned, the keys insert was called with
    csl, cw, cr, c_returned, c_calls,
    \* ---- Bloom filter ----
    bits_per_key,       \* BloomBuilder.bits_per_key
    bl_keys,            \* the hashes of the keys handed to build
    bl_filter,          \* the result of build
    bl_query,           \* the last may_contain: [done, key, panic, result]
    \* ---- filter block ----
    fb_keys,            \* FilterBlockBuilder.keys
    filter_offsets,     \* FilterBlockBuilder.filter_offsets
    fb_buf,             \* FilterBlockBuilder.buf
    fb_finished,        \* finish() was called
    fb_panic,           \* the assertion of start_block failed
    fb_offset,          \* the offset of the last start_block, -1 before the first
    fb_added,           \* <<o, k>>: k was added after start_block(o)
    fb_calls,           \* the number of start_block and add_key calls
    fb_match,           \* the last key_may_match: [done, offset, key, result]
    \* ---- optimistic read validation ----
    olc_version,        \* the node's version word
    olc_w,              \* per writer: [pc, snap]
    olc_r,              \* per reader: [has, snap, dirty, last, flag]
    olc_obsolete,       \* mark_obsolte was called
    olc_acquired,       \* the number of write guards acquired
    \* ---- varint codec ----
    vi_value,           \* the u64 to encode, as 64 bits, least significant first
    vi_bytes,           \* VarUInt::from(value).as_slice(), <<>> before the call
    vi_dec,             \* try_to_u64 of it: [done, ok, value]
    \* ---- SSTable footer ----
    meta_index_handle,  \* [offset, size], each a u64 as 64 bits
    index_handle,       \* [offset, size]
    ft_out,             \* Footer::encode: [done, panic, buf]
    \* ---- index separators ----
    sep_start,          \* the last key of a block
    sep_limit,          \* the first key of the next block
    sep_out,            \* find_shortest_separator: [done, res]
    \* ---- memtable ----
    mt_skl,             \* the SkipSet<MemKeyEntry>: the entries' bytes, in its order
    mt_usage,           \* mem_usage
    mt_calls,           \* the inserts so far: [key, seq, ptr]
    mt_get,             \* the last get: [done, key, seq, res]
    \* ---- value-log entry codec ----
    en_entry,           \* the entry: [key, value, meta]
    en_buf,             \* its encoding, as it reaches decode
    en_damage,          \* what happened to the bytes: "new", "none", "short", "byte"
    en_dec,             \* VLogEntry::decode(buf): [done, ok, key, value, meta]
    \* ---- value log under concurrent callers ----
    vc_files,           \* the LogFiles in the RwLock: [dir, max_fid, current_file, active_files]
    vc_mfs,             \* max_file_size
    vc_lock,            \* the RwLock: [writer, readers]
    vc_w,               \* per writing task: [pc, entry, ptr]
    vc_r,               \* per reading task: [pc, ptr, done, mid, res]
    vc_ptrs,            \* the pointers returned: [entry, ptr]
    \* ---- batched value log (VLogSet) ----
    vs_dir,             \* the directory: segment id -> bytes
    vs_set,             \* the VLogSet: [vlog_files, max_fid, wirten_offset, max_file_size, current_file, buf]
    vs_ptrs,            \* the pointers returned: [entry, ptr]
    vs_appends,         \* the append calls so far
    \* ---- table builder (TableBuilder) ----
    tb_config,          \* the Config: [block_size, block_restart_interval, filter_policy]
    tb_this,            \* the TableBuilder's fields
    tb_file,            \* the bytes of the table file
    tb_blocks,          \* every write_raw_block call: [kind, start, content, handle, keys]
    tb_index,           \* every index_block.add call: [key, value, at]
    tb_keys,            \* the keys of the data block being built
    tb_panic            \* the assertion that fired, or "none"

walVars == <<wal_file, written_block_len, block_offset, wal_written, wal_bad, wal_read,
            wal_failed>>

vlogVars == <<vlog_dir, max_fid, max_file_size, current_file, active_files,
              vlog_ptrs, vlog_created, vlog_reopens, vlog_last_read>>

lockVars == <<version, prefix_len, lock_pc, lock_snap, lock_tmp, lock_succ, lock_err,
              lock_final>>

skipVars == <<sl_head, sl_nodes, max_level, sl_calls, sl_panic, sl_scan, sl_seek>>

blockVars == <<bb_buf, restarts, last_key, counter, finished, block_restart_interval,
               bb_added, blk_scan, blk_seek, blk_prev, bb_step, bb_panic>>

artVars == <<art_built, art_root, art_pc, art_guard, art_err, art_panics, art_get>>

concVars == <<csl, cw, cr, c_returned, c_calls>>

bloomVars == <<bits_per_key, bl_keys, bl_filter, bl_query>>

filtVars == <<fb_keys, filter_offsets, fb_buf, fb_finished, fb_panic, fb_offset,
              fb_added, fb_calls, fb_match>>

olcVars == <<olc_version, olc_w, olc_r, olc_obsolete, olc_acquired>>

vintVars == <<vi_value, vi_bytes, vi_dec>>

footVars == <<meta_index_handle, index_handle, ft_out>>

sepVars == <<sep_start, sep_limit, sep_out>>

memVars == <<mt_skl, mt_usage, mt_calls, mt_get>>

entVars == <<en_entry, en_buf, en_damage, en_dec>>

vconVars == <<vc_files, vc_mfs, vc_lock, vc_w, vc_r, vc_ptrs>>

vsetVars == <<vs_dir, vs_set, vs_ptrs, vs_appends>>

tbVars == <<tb_config, tb_this, tb_file, tb_blocks, tb_index, tb_keys, tb_panic>>

vars == <<walVars, vlogVars, lockVars, skipVars, blockVars, artVars, concVars, bloomVars, filtVars, olcVars, vintVars, footVars, sepVars, memVars, entVars, vconVars, vsetVars, tbVars>>

\* What an operation of one component leaves alone: the other components.
WalFrame == UNCHANGED <<vlogVars, lockVars, skipVars, blockVars, artVars, concVars, bloomVars, filtVars, olcVars, vintVars, footVars, sepVars, memVars, entVars, vconVars, vsetVars, tbVars>>
VlogFrame == UNCHANGED <<walVars, lockVars, skipVars, blockVars, artVars, concVars, bloomVars, filtVars, olcVars, vintVars, footVars, sepVars, memVars, entVars, vconVars, vsetVars, tbVars>>
LockFrame == UNCHANGED <<walVars, vlogVars, skipVars, blockVars, artVars, concVars, bloomVars, filtVars, olcVars, vintVars, footVars, sepVars, memVars, entVars, vconVars, vsetVars, tbVars>>
SkipFrame == UNCHANGED <<walVars, vlogVars, lockVars, blockVars, artVars, concVars, bloomVars, filtVars, olcVars, vintVars, footVars, sepVars, memVars, entVars, vconVars, vsetVars, tbVars>>
BlockFrame == UNCHANGED <<walVars, vlogVars, lockVars, skipVars, artVars, concVars, bloomVars, filtVars, olcVars, vintVars, footVars, sepVars, memVars, entVars, vconVars, vsetVars, tbVars>>
ArtFrame == UNCHANGED <<walVars, vlogVars, lockVars, skipVars, blockVars, concVars, bloomVars, filtVars, olcVars, vintVars, footVars, sepVars, memVars, entVars, vconVars, vsetVars, tbVars>>
ConcFrame == UNCHANGED <<walVars, vlogVars, lockVars, skipVars, blockVars, artVars, bloomVars, filtVars, olcVars, vintVars, footVars, sepVars, memVars, entVars, vconVars, vsetVars, tbVars>>
BloomFrame == UNCHANGED <<walVars, vlogVars, lockVars, skipVars, blockVars, artVars, concVars, filtVars, olcVars, vintVars, footVars, sepVars, memVars, entVars, vconVars, vsetVars, tbVars>>
FiltFrame == UNCHANGED <<walVars, vlogVars, lockVars, skipVars, blockVars, artVars, concVars, bloomVars, olcVars, vintVars, footVars, sepVars, memVars, entVars, vconVars, vsetVars, tbVars>>
OlcFrame == UNCHANGED <<walVars, vlogVars, lockVars, skipVars, blockVars, artVars, concVars, bloomVars, filtVars, vintVars, footVars, sepVars, memVars, entVars, vconVars, vsetVars, tbVars>>
VintFrame == UNCHANGED <<walVars, vlogVars, lockVars, skipVars, blockVars, artVars, concVars, bloomVars, filtVars, olcVars, footVars, sepVars, memVars, entVars, vconVars, vsetVars, tbVars>>
FootFrame == UNCHANGED <<walVars, vlogVars, lockVars, skipVars, blockVars, artVars, concVars, bloomVars, filtVars, olcVars, vintVars, sepVars, memVars, entVars, vconVars, vsetVars, tbVars>>
SepFrame == UNCHANGED <<walVars, vlogVars, lockVars, skipVars, blockVars, artVars, concVars, bloomVars, filtVars, olcVars, vintVars, footVars, memVars, entVars, vconVars, vsetVars, tbVars>>
MemFrame == UNCHANGED <<walVars, vlogVars, lockVars, skipVars, blockVars, artVars, concVars, bloomVars, filtVars, olcVars, vintVars, footVars, sepVars, entVars, vconVars, vsetVars, tbVars>>
EntFrame == UNCHANGED <<walVars, vlogVars, lockVars, skipVars, blockVars, artVars, concVars, bloomVars, filtVars, olcVars, vintVars, footVars, sepVars, memVars, vconVars, vsetVars, tbVars>>
VconFrame == UNCHANGED <<walVars, vlogVars, lockVars, skipVars, blockVars, artVars, concVars, bloomVars, filtVars, olcVars, vintVars, footVars, sepVars, memVars, entVars, vsetVars, tbVars>>
VsetFrame == UNCHANGED <<walVars, vlogVars, lockVars, skipVars, blockVars, artVars, concVars, bloomVars, filtVars, olcVars, vintVars, footVars, sepVars, memVars, entVars, vconVars, tbVars>>
TbFrame == UNCHANGED <<walVars, vlogVars, lockVars, skipVars, blockVars, artVars, concVars, bloomVars, filtVars, olcVars, vintVars, footVars, sepVars, memVars, entVars, vconVars, vsetVars>>

Min(a, b) == IF a <= b THEN a ELSE b
Max(a, b) == IF a >= b THEN a ELSE b

(***************************************************************************)
(*                         WRITE-AHEAD LOG                                 *)
(*                                                                         *)
(* The contents of a payload are abstract: payload number id of length     *)
(* len is the byte string "bytes 0..len-1 of payload id", and a run        *)
(* <<id, from, n>> is n of its bytes starting at byte from.  Lengths,      *)
(* offsets, the 16-bit length field and the block arithmetic are exact.    *)
(***************************************************************************)

BLOCK_SIZE == 8388608

U16 == 65536

\* RecordType (repr u8)
First == 1
Middle == 2
Last == 3
Full == 4

\* The number of payloads written in one run of the model.
MaxWrites == 3

\* Payload lengths that exercise the framing: empty, tiny, the largest and
\* the first too-large value of a 16-bit length, lengths that leave 8, 7 and 0
\* bytes in a block, one that spills by one byte, and one over two blocks.
PayloadLens ==
    {0, 1, 14, U16 - 1, U16, BLOCK_SIZE - 15, BLOCK_SIZE - 14, BLOCK_SIZE - 7,
     BLOCK_SIZE - 6, 2 * BLOCK_SIZE}

\* n bytes of payload id starting at from; every empty run is the same
\* (empty) byte string.
Run(id, from, n) == IF n = 0 THEN <<0, 0, 0>> ELSE <<id, from, n>>

\* payload.slice(from..to)
Slice(p, from, to) == Run(p.id, from, to - from)

\* A byte string is a sequence of non-empty runs in which adjacent runs of one
\* payload are merged; buf.extend_from_slice(run).
ExtendFromSlice(buf, run) ==
    IF run[3] = 0 THEN buf
    ELSE IF Len(buf) > 0 /\ buf[Len(buf)][1] = run[1]
                         /\ buf[Len(buf)][2] + buf[Len(buf)][3] = run[2]
         THEN [buf EXCEPT ![Len(buf)] = <<run[1], @[2], @[3] + run[3]>>]
         ELSE Append(buf, run)

PayloadBytes(p) == ExtendFromSlice(<<>>, Run(p.id, 0, p.len))

\* crc32fast::hash over [len, type, payload]: modelled as collision-free, the
\* checksum of a byte string is the byte string itself.  The last component is
\* 0 for a checksum that was computed and 1 for checksum bytes damaged on disk.
Crc32(lenField, ty, data) == <<lenField, ty, data, 0>>

\* Record::encord: the unit a record occupies on disk when written at off.
\* The length field is the payload length cast to u16.
encord(rec, off, pid) ==
    LET lenField == rec.payload[3] % U16
    IN [kind |-> "rec", off |-> off, size |-> rec.payload[3] + 7,
        lenField |-> lenField, ty |-> rec.ty, data |-> rec.payload,
        crc |-> Crc32(lenField, rec.ty, rec.payload), pid |-> pid]

\* A padding one byte short (mutant)
PadUnitShort(off, n) ==
    [kind |-> "pad", off |-> off, size |-> n - 1, lenField |-> 0, ty |-> 0,
     data |-> <<0, 0, 0>>, crc |-> <<0, 0, <<0, 0, 0>>, 0>>, pid |-> 0]

\* PADDING[n - 1] written at off
PadUnit(off, n) ==
    [kind |-> "pad", off |-> off, size |-> n, lenField |-> 0, ty |-> 0,
     data |-> <<0, 0, 0>>, crc |-> <<0, 0, <<0, 0, 0>>, 0>>, pid |-> 0]

\* The writer's state as a record, so that the helpers compose as in the code.
last_file_offset(w) == w.written_block_len * BLOCK_SIZE + w.block_offset

block_remain_bytes(w) == BLOCK_SIZE - w.block_offset

try_pad_block(w) ==
    IF block_remain_bytes(w) <= 7
    THEN [file |-> IF block_remain_bytes(w) > 0
                   THEN Append(w.file, PadUnit(last_file_offset(w), block_remain_bytes(w)))
                   ELSE w.file,
          block_offset |-> 0,
          written_block_len |-> w.written_block_len + 1]
    ELSE w

RECURSIVE write_records(_, _, _, _)
write_records(w, records, i, pid) ==
    IF i > Len(records) THEN try_pad_block(w)
    ELSE LET u  == encord(records[i], last_file_offset(w), pid)
             w1 == [w EXCEPT !.file = Append(@, u),
                             !.block_offset = @ + u.size]
             w2 == IF block_remain_bytes(w1) <= 7
                   THEN [file |-> IF block_remain_bytes(w1) > 0
                                  THEN Append(w1.file,
                                         PadUnit(last_file_offset(w1), block_remain_bytes(w1)))
                                  ELSE w1.file,
                         block_offset |-> 0,
                         written_block_len |-> w1.written_block_len + 1]
                   ELSE w1
         IN write_records(w2, records, i + 1, pid)

\* The "middle block and last block" loop of write().
RECURSIVE split_rest(_, _, _)
split_rest(p, payload_remain, records) ==
    IF payload_remain > 0
    THEN LET record ==
                 IF payload_remain > BLOCK_SIZE - 7
                 THEN [payload |-> Slice(p, p.len - payload_remain,
                                         p.len - payload_remain + BLOCK_SIZE - 7),
                       ty |-> Middle]
                 ELSE [payload |-> Slice(p, p.len - payload_remain, p.len),
                       ty |-> Last]
         IN split_rest(p, payload_remain - Min(BLOCK_SIZE - 7, payload_remain),
                       Append(records, record))
    ELSE records

\* write() that never splits (mutant)
frame_never_splits(p, remain) ==
    << [payload |-> Slice(p, 0, p.len), ty |-> Full] >>

\* The records write() frames payload p into, given the bytes left in the block.
frame(p, remain) ==
    IF p.len + 7 <= remain
    THEN << [payload |-> Slice(p, 0, p.len), ty |-> Full] >>
    ELSE LET records == split_rest(p, p.len - (remain - 7),
                           << [payload |-> Slice(p, 0, remain - 7), ty |-> First] >>)
         IN IF Len(records) = 1
            THEN << [records[1] EXCEPT !.ty = Full] >>
            ELSE records

\* ReLogWriter::write
write(w, p) ==
    LET w0 == try_pad_block(w)
    IN write_records(w0, frame(p, block_remain_bytes(w0)), 1, p.id)

(* ------------------------------ reader -------------------------------- *)

NoRead == [kind |-> "none", payloads |-> <<>>, err |-> "none"]

RECURSIVE file_len_upto(_, _)
file_len_upto(file, i) ==
    IF i = 0 THEN 0 ELSE Max(file[i].off + file[i].size, file_len_upto(file, i - 1))

\* file.metadata().len()
file_len(file) == file_len_upto(file, Len(file))

\* The unit that starts at byte off of the file, if one does.
HasUnitAt(file, off) == \E i \in 1..Len(file) : file[i].off = off

UnitAt(file, off) == file[CHOOSE i \in 1..Len(file) : file[i].off = off]

\* ReLogReader::get_records_from_block over the bytes [base+pos, base+limit)
\* of the file.  A block position at which no record starts holds zero
\* padding or payload bytes, whose checksum does not match.
RECURSIVE get_records_from_block(_, _, _, _, _)
get_records_from_block(file, base, pos, limit, records) ==
    LET rem == limit - pos
    IN IF ~(rem > 0 /\ rem > 7)
       THEN [kind |-> "Ok", records |-> records, err |-> "none"]
       ELSE IF ~HasUnitAt(file, base + pos) \/ UnitAt(file, base + pos).kind # "rec"
       THEN [kind |-> "Err", records |-> records, err |-> "crc"]
       ELSE LET u   == UnitAt(file, base + pos)
                len == u.lenField
            IN IF len > rem - 3                  \* &buf[..len as usize]
               THEN [kind |-> "Panic", records |-> records, err |-> "slice"]
               ELSE IF rem - 3 - len < 4         \* buf.get_u32()
               THEN [kind |-> "Panic", records |-> records, err |-> "get_u32"]
               ELSE IF len # u.data[3] \/ u.crc # Crc32(len, u.ty, u.data)
               THEN [kind |-> "Err", records |-> records, err |-> "crc"]
               ELSE IF u.ty \notin {First, Middle, Last, Full}
               THEN [kind |-> "Err", records |-> records, err |-> "type"]
               ELSE get_records_from_block(file, base, pos + 7 + len, limit,
                        Append(records, [payload |-> u.data, ty |-> u.ty]))

\* ReLogReader::read_block for block i of blcok_count
read_block(file, i, blcok_count) ==
    LET block_remain == IF i = blcok_count - 1
                        THEN file_len(file) % BLOCK_SIZE
                        ELSE BLOCK_SIZE
    IN get_records_from_block(file, i * BLOCK_SIZE, 0, block_remain, <<>>)

\* The merge loop of read_file over the results of blocks i..blcok_count-1.
RECURSIVE merge_results(_, _, _, _)
merge_results(file, i, blcok_count, records) ==
    IF i >= blcok_count THEN [kind |-> "Ok", records |-> records, err |-> "none"]
    ELSE LET res == read_block(file, i, blcok_count)
         IN IF res.kind = "Ok"
            THEN merge_results(file, i + 1, blcok_count, records \o res.records)
            ELSE [kind |-> "Err", records |-> records \o res.records, err |-> res.err]

\* ReLogReader::read_file: one task per block, every task is awaited (and
\* unwrapped) before the results are merged, so a panic in any task is a panic
\* of read_file.
read_file(file) ==
    LET blcok_count == (file_len(file) + BLOCK_SIZE) \div BLOCK_SIZE
    IN IF \E i \in 0..(blcok_count - 1) : read_block(file, i, blcok_count).kind = "Panic"
       THEN [kind |-> "Panic", records |-> <<>>, err |-> "task"]
       ELSE merge_results(file, 0, blcok_count, <<>>)

\* The reassembly loop of read().
RECURSIVE assemble(_, _, _, _)
assemble(records, i, buf, payloads) ==
    IF i > Len(records) THEN payloads
    ELSE LET r == records[i]
         IN CASE r.ty = First  -> assemble(records, i + 1,
                                      ExtendFromSlice(<<>>, r.payload), payloads)
              [] r.ty = Middle -> assemble(records, i + 1,
                                      ExtendFromSlice(buf, r.payload), payloads)
              [] r.ty = Last   -> assemble(records, i + 1, <<>>,
                                      Append(payloads, ExtendFromSlice(buf, r.payload)))
              [] OTHER         -> assemble(records, i + 1, <<>>,
                                      Append(payloads, ExtendFromSlice(<<>>, r.payload)))

\* ReLogReader::read
read(file) ==
    LET res == read_file(file)
    IN IF res.kind = "Panic" THEN [kind |-> "Panic", payloads |-> <<>>, err |-> res.err]
       ELSE [kind |-> res.kind,
             payloads |-> assemble(res.records, 1, <<>>, <<>>),
             err |-> res.err]

(* ------------------------------ actions ------------------------------- *)

WalInit ==
    /\ wal_file = <<>>
    /\ written_block_len = 0
    /\ block_offset = 0
    /\ wal_written = <<>>
    /\ wal_bad = 0
    /\ wal_read = NoRead
    /\ wal_failed = -1

\* writer.write(payload).await returns Ok
WalWrite ==
    /\ wal_bad = 0
    /\ Len(wal_written) < MaxWrites
    /\ \E len \in PayloadLens :
         LET p == [id |-> Len(wal_written) + 1, len |-> len]
             w == write([file |-> wal_file, block_offset |-> block_offset,
                         written_block_len |-> written_block_len], p)
         IN /\ wal_file' = w.file
            /\ block_offset' = w.block_offset
            /\ written_block_len' = w.written_block_len
            /\ wal_written' = Append(wal_written, p)
    /\ wal_read' = NoRead
    /\ UNCHANGED <<wal_bad, wal_failed>>
    /\ WalFrame

\* The length-field values a damaged record may carry.
BadLens == {0, 1, 100, U16 - 1}

\* One record of the file is damaged on disk: its checksum bytes, its type
\* byte (with or without a checksum that matches it), or its length field.
WalCorrupt ==
    /\ wal_bad = 0
    /\ \E i \in 1..Len(wal_file) :
         /\ wal_file[i].kind = "rec"
         /\ wal_bad' = i
         /\ \/ wal_file' = [wal_file EXCEPT ![i].crc[4] = 1]
            \/ \E t \in {0, 5} :
                 wal_file' = [wal_file EXCEPT ![i].ty = t,
                                ![i].crc = Crc32(wal_file[i].lenField, t, wal_file[i].data)]
            \/ \E t \in {0, 5} : wal_file' = [wal_file EXCEPT ![i].ty = t]
            \/ \E l \in BadLens :
                 /\ l # wal_file[i].lenField
                 /\ wal_file' = [wal_file EXCEPT ![i].lenField = l]
    /\ wal_read' = NoRead
    /\ UNCHANGED <<written_block_len, block_offset, wal_written, wal_failed>>
    /\ WalFrame

\* reader.read(path).await
WalRead ==
    /\ wal_read = NoRead
    /\ wal_read' = read(wal_file)
    /\ UNCHANGED <<wal_file, written_block_len, block_offset, wal_written, wal_bad, wal_failed>>
    /\ WalFrame

WalNext == WalWrite \/ WalCorrupt \/ WalRead

\* The payload lengths of a write() that fails: one record, and records in
\* two blocks with the padding between them.
FailLens == {1, 14, BLOCK_SIZE - 6}

\* writer.write(payload).await returns Err: every write_at of write_records
\* was submitted and block_offset and written_block_len were advanced before
\* the completions are awaited; a completion that returns an error makes
\* write_records return at its `?`, and the units of the failed completions
\* are not in the file.
WalWriteFail ==
    /\ wal_bad = 0
    /\ wal_failed = -1
    /\ Len(wal_written) < MaxWrites
    /\ \E len \in FailLens :
         LET p == [id |-> MaxWrites + 1, len |-> len]
             w == write([file |-> wal_file, block_offset |-> block_offset,
                         written_block_len |-> written_block_len], p)
             submitted == (Len(wal_file) + 1)..Len(w.file)
         IN \E lost \in (SUBSET submitted) \ {{}} :
              /\ wal_file' = SelectSeq([i \in 1..Len(w.file) |->
                                            IF i \in lost THEN PadUnit(0, 0) ELSE w.file[i]],
                                       LAMBDA u : u # PadUnit(0, 0))
              /\ block_offset' = w.block_offset
              /\ written_block_len' = w.written_block_len
    /\ wal_failed' = Len(wal_written)
    /\ wal_read' = NoRead
    /\ UNCHANGED <<wal_written, wal_bad>>
    /\ WalFrame

WalFailNext == WalWrite \/ WalWriteFail \/ WalRead


(***************************************************************************)
(*                             VALUE LOG                                   *)
(*                                                                         *)
(* Entries and files are byte sequences.  The segment files themselves     *)
(* (WriteLogFile, ReadLogFile: src/vlog/vlog_file.rs) are not part of the  *)
(* sources; they are modelled from the specification's section 4.5.        *)
(***************************************************************************)

ENTRY_HEADER_SIZE == 9

\* buf.put_u32(n), big-endian
PutU32(n) == <<(n \div 16777216) % 256, (n \div 65536) % 256, (n \div 256) % 256, n % 256>>

\* (&bytes[at..]).get_u32(), at counted from 0
GetU32(bytes, at) ==
    bytes[at + 1] * 16777216 + bytes[at + 2] * 65536 + bytes[at + 3] * 256 + bytes[at + 4]

\* crc32fast::hash (an external crate): a positional checksum stands in for
\* the CRC-32 polynomial; what matters is that it is a function of the bytes.
RECURSIVE ChecksumUpto(_, _)
ChecksumUpto(bytes, n) ==
    IF n = 0 THEN 0 ELSE (ChecksumUpto(bytes, n - 1) * 31 + bytes[n] + 1) % 65521

crc32fast_hash(bytes) == ChecksumUpto(bytes, Len(bytes))

\* ValueType::try_from(u8) succeeds
IsValueType(b) == b \in 0..4

\* An encode that takes the checksum before the value is written (mutant)
encode_crc_early(e) ==
    LET head == PutU32(Len(e.key)) \o PutU32(Len(e.value)) \o <<e.meta>> \o e.key
    IN head \o e.value \o PutU32(crc32fast_hash(head))

\* VLogEntry::encode
encode(e) ==
    LET buf == PutU32(Len(e.key)) \o PutU32(Len(e.value)) \o <<e.meta>> \o e.key \o e.value
    IN buf \o PutU32(crc32fast_hash(buf))

DecodeErr == [ok |-> FALSE, key |-> <<>>, value |-> <<>>, meta |-> 0]

\* A decode that does not compare the checksums (mutant)
decode_unchecked(bytes) ==
    IF ~(Len(bytes) >= ENTRY_HEADER_SIZE + 4) THEN DecodeErr
    ELSE LET key_len   == GetU32(bytes, 0)
             value_len == GetU32(bytes, 4)
         IN IF ~(key_len + value_len + ENTRY_HEADER_SIZE + 4 <= Len(bytes)) THEN DecodeErr
            ELSE IF ~IsValueType(bytes[9]) THEN DecodeErr
            ELSE [ok |-> TRUE,
                  key |-> SubSeq(bytes, ENTRY_HEADER_SIZE + 1, ENTRY_HEADER_SIZE + key_len),
                  value |-> SubSeq(bytes, ENTRY_HEADER_SIZE + key_len + 1,
                                   ENTRY_HEADER_SIZE + key_len + value_len),
                  meta |-> bytes[9]]

\* VLogEntry::decode
decode(bytes) ==
    IF ~(Len(bytes) >= ENTRY_HEADER_SIZE + 4) THEN DecodeErr
    ELSE LET key_len   == GetU32(bytes, 0)
             value_len == GetU32(bytes, 4)
         IN IF ~(key_len + value_len + ENTRY_HEADER_SIZE + 4 <= Len(bytes)) THEN DecodeErr
            ELSE IF ~IsValueType(bytes[9]) THEN DecodeErr
            ELSE LET key   == SubSeq(bytes, ENTRY_HEADER_SIZE + 1, ENTRY_HEADER_SIZE + key_len)
                     value == SubSeq(bytes, ENTRY_HEADER_SIZE + key_len + 1,
                                     ENTRY_HEADER_SIZE + key_len + value_len)
                     crc   == GetU32(bytes, ENTRY_HEADER_SIZE + key_len + value_len)
                     calc_crc == crc32fast_hash(
                                     SubSeq(bytes, 1, ENTRY_HEADER_SIZE + key_len + value_len))
                 IN IF crc # calc_crc THEN DecodeErr
                    ELSE [ok |-> TRUE, key |-> key, value |-> value, meta |-> bytes[9]]

\* The result of decoding for an entry e
OkEntry(e) == [ok |-> TRUE, key |-> e.key, value |-> e.value, meta |-> e.meta]

(* ---- segment files: modelled from the specification ---- *)

\* WriteLogFile::new(path of fid, fid): the file is opened in append mode and
\* created when it does not exist; writen_len is its length.
WriteLogFile_new(dir, fid) ==
    LET dir1 == IF fid \in DOMAIN dir THEN dir ELSE dir @@ (fid :> <<>>)
    IN [dir |-> dir1, file |-> [fid |-> fid, writen_len |-> Len(dir1[fid])]]

\* WriteLogFile::write(buf): append at the tail offset; the pointer is
\* {fid, tail offset, encoded length}.
WriteLogFile_write(dir, file, buf) ==
    [dir  |-> [dir EXCEPT ![file.fid] = SubSeq(@, 1, file.writen_len) \o buf],
     file |-> [file EXCEPT !.writen_len = @ + Len(buf)],
     ptr  |-> [file_id |-> file.fid, len |-> Len(buf), offset |-> file.writen_len]]

\* ReadLogFile::read / WriteLogFile::read: ptr.len bytes at ptr.offset of the
\* file's own segment, in one read.
LogFile_read(dir, fid, ptr) ==
    SubSeq(dir[fid], ptr.offset + 1, Min(ptr.offset + ptr.len, Len(dir[fid])))

(* ---- LogFiles ---- *)

SetMax(S) == CHOOSE x \in S : \A y \in S : y <= x

\* LogFiles::new over the directory dir.  files is the sorted list of the
\* segment ids found, so files.len() is their number and files.last() the
\* highest id.  The result carries the id of the segment opened as a new
\* one (created), or -1.
LogFiles_new(dir, mfs) ==
    LET ids      == DOMAIN dir
        n        == Cardinality(ids)
    IN IF ids # {}
       THEN LET last == SetMax(ids)
                file == WriteLogFile_new(dir, last).file
            IN IF file.writen_len >= mfs
               THEN LET nw == WriteLogFile_new(dir, n)
                    IN [dir |-> nw.dir, max_fid |-> n + 1, current_file |-> nw.file,
                        active_files |-> (ids \ {last}) \cup {last}, created |-> n]
               ELSE [dir |-> dir, max_fid |-> n, current_file |-> file,
                     active_files |-> ids \ {last}, created |-> -1]
       ELSE LET nw == WriteLogFile_new(dir, n)
            IN [dir |-> nw.dir, max_fid |-> n + 1, current_file |-> nw.file,
                active_files |-> {}, created |-> n]

\* next_write_file without the insertion of the sealed file into active_files
next_write_file_forgets(st, mfs) ==
    IF st.current_file.writen_len < mfs
    THEN st @@ [created |-> -1]
    ELSE LET nw == WriteLogFile_new(st.dir, st.max_fid)
         IN [dir |-> nw.dir, max_fid |-> st.max_fid + 1, current_file |-> nw.file,
             active_files |-> st.active_files, created |-> st.max_fid]

\* LogFiles::next_write_file on the state st = [dir, max_fid, current_file,
\* active_files]
next_write_file(st, mfs) ==
    IF st.current_file.writen_len < mfs
    THEN st @@ [created |-> -1]
    ELSE LET nw == WriteLogFile_new(st.dir, st.max_fid)
         IN [dir |-> nw.dir, max_fid |-> st.max_fid + 1, current_file |-> nw.file,
             active_files |-> st.active_files \cup {st.current_file.fid},
             created |-> st.max_fid]

\* LogFiles::write
LogFiles_write(st, mfs, buf) ==
    LET w  == WriteLogFile_write(st.dir, st.current_file, buf)
        st1 == next_write_file([dir |-> w.dir, max_fid |-> st.max_fid,
                                current_file |-> w.file,
                                active_files |-> st.active_files], mfs)
    IN [st |-> st1, ptr |-> w.ptr]

\* LogFiles::read: the segment read and the bytes it yields
LogFiles_read(dir, cur, active, ptr) ==
    IF ptr.file_id \in active
    THEN [src |-> ptr.file_id, bytes |-> LogFile_read(dir, ptr.file_id, ptr)]
    ELSE [src |-> cur.fid, bytes |-> LogFile_read(dir, cur.fid, ptr)]

\* ValueLogSet::read_entry
read_entry(dir, cur, active, ptr) ==
    LET r == LogFiles_read(dir, cur, active, ptr)
    IN [ptr |-> ptr, src |-> r.src, res |-> decode(r.bytes)]

(* ------------------------------ actions ------------------------------- *)

\* The number of write_entry calls, of drop-and-reopen cycles, and the
\* highest segment id a directory may hold before the set is first built.
MaxVlogWrites == 3
MaxReopens == 1
MaxPreFid == 2

VlogEntries ==
    { [key |-> <<1>>, value |-> <<>>, meta |-> 0],
      [key |-> <<3, 1>>, value |-> <<2>>, meta |-> 4] }

\* max_file_size: every write rotates, every second one, every third one.
MaxFileSizes == {1, 20, 40}

\* A segment found in the directory at startup is empty or holds one entry.
PreContents == {<<>>, encode([key |-> <<5>>, value |-> <<6>>, meta |-> 1])}

PreDirs == UNION { [ids -> PreContents] : ids \in SUBSET (0..MaxPreFid) }

NoVlogRead == [ptr |-> [file_id |-> 0, len |-> 0, offset |-> 0], src |-> -1, res |-> DecodeErr]

\* ValueLogSet::new on a directory that is empty or holds earlier segments
VlogInit ==
    \E dir \in PreDirs : \E mfs \in MaxFileSizes :
        LET st == LogFiles_new(dir, mfs)
        IN /\ vlog_dir = st.dir
           /\ max_fid = st.max_fid
           /\ max_file_size = mfs
           /\ current_file = st.current_file
           /\ active_files = st.active_files
           /\ vlog_ptrs = <<>>
           /\ vlog_created = IF st.created >= 0
                             THEN {[fid |-> st.created, before |-> DOMAIN dir, at |-> "startup"]}
                             ELSE {}
           /\ vlog_reopens = 0
           /\ vlog_last_read = NoVlogRead

\* ValueLogSet::write_entry
VlogWriteEntry ==
    /\ Len(vlog_ptrs) < MaxVlogWrites
    /\ \E e \in VlogEntries :
         LET r == LogFiles_write([dir |-> vlog_dir, max_fid |-> max_fid,
                                  current_file |-> current_file,
                                  active_files |-> active_files],
                                 max_file_size, encode(e))
         IN /\ vlog_dir' = r.st.dir
            /\ max_fid' = r.st.max_fid
            /\ current_file' = r.st.current_file
            /\ active_files' = r.st.active_files
            /\ vlog_ptrs' = Append(vlog_ptrs, [entry |-> e, ptr |-> r.ptr])
            /\ vlog_created' = IF r.st.created >= 0
                               THEN vlog_created \cup
                                      {[fid |-> r.st.created, before |-> DOMAIN vlog_dir,
                                        at |-> "rotation"]}
                               ELSE vlog_created
    /\ UNCHANGED <<max_file_size, vlog_reopens, vlog_last_read>>
    /\ VlogFrame

\* drop(vlog); ValueLogSet::new on the same directory
VlogReopen ==
    /\ vlog_reopens < MaxReopens
    /\ LET st == LogFiles_new(vlog_dir, max_file_size)
       IN /\ vlog_dir' = st.dir
          /\ max_fid' = st.max_fid
          /\ current_file' = st.current_file
          /\ active_files' = st.active_files
          /\ vlog_created' = IF st.created >= 0
                             THEN vlog_created \cup
                                    {[fid |-> st.created, before |-> DOMAIN vlog_dir,
                                      at |-> "startup"]}
                             ELSE vlog_created
    /\ vlog_reopens' = vlog_reopens + 1
    /\ UNCHANGED <<max_file_size, vlog_ptrs, vlog_last_read>>
    /\ VlogFrame

\* The pointers read_entry is called with: every pointer returned so far, and
\* a pointer to a segment that was never created.
ReadPtrs ==
    { vlog_ptrs[i].ptr : i \in 1..Len(vlog_ptrs) }
        \cup { [file_id |-> max_fid + 1, len |-> 14, offset |-> 0] }

\* ValueLogSet::read_entry
VlogReadEntry ==
    /\ \E ptr \in ReadPtrs :
         vlog_last_read' = read_entry(vlog_dir, current_file, active_files, ptr)
    /\ UNCHANGED <<vlog_dir, max_fid, max_file_size, current_file, active_files,
                   vlog_ptrs, vlog_created, vlog_reopens>>
    /\ VlogFrame

VlogNext == VlogWriteEntry \/ VlogReopen \/ VlogReadEntry


(***************************************************************************)
(*                     OPTIMISTIC VERSION LOCK                             *)
(*                                                                         *)
(* The version word: bit 0 obsolete, bit 1 write-locked, the rest a        *)
(* counter.  Threads run the loop of tests::muil_threads; the increment    *)
(* under the guard is a plain (non-atomic) read and write.                 *)
(***************************************************************************)

\* The number of threads and of write locks each takes.
LockThreads == 2
LockRounds == 2

Threads == 1..LockThreads

\* A mark_lock that leaves the lock bit alone
mark_lock_keeps(v) == v

mark_lock(v) == v + 2

is_obsolted(v) == v % 2 # 0

\* An is_locked that never sees the lock bit (mutant)
is_locked_never(v) == FALSE

is_locked(v) == (v \div 2) % 2 # 0

\* IntenalNode::check_version on the loaded value v
check_version(v) ==
    IF is_locked(v) THEN "Locked"
    ELSE IF is_obsolted(v) THEN "Obsoleted"
    ELSE "Ok"

LockInit ==
    /\ version = 0
    /\ prefix_len = 0
    /\ lock_pc = [t \in Threads |-> "load"]
    /\ lock_snap = [t \in Threads |-> 0]
    /\ lock_tmp = [t \in Threads |-> 0]
    /\ lock_succ = [t \in Threads |-> 0]
    /\ lock_err = {}
    /\ lock_final = [done |-> FALSE, ok |-> FALSE, prefix_len |-> 0]

\* IntenalNode::write, first half: check_version loads the version
WriteLoad(t) ==
    /\ lock_pc[t] = "load"
    /\ IF check_version(version) = "Ok"
       THEN /\ lock_snap' = [lock_snap EXCEPT ![t] = version]
            /\ lock_pc' = [lock_pc EXCEPT ![t] = "cas"]
            /\ UNCHANGED lock_err
       ELSE /\ lock_err' = lock_err \cup {check_version(version)}
            /\ UNCHANGED <<lock_snap, lock_pc>>
    /\ UNCHANGED <<version, prefix_len, lock_tmp, lock_succ, lock_final>>
    /\ LockFrame

\* IntenalNode::write, second half: compare_exchange(version, mark_lock(version))
WriteCas(t) ==
    /\ lock_pc[t] = "cas"
    /\ IF version = lock_snap[t]
       THEN /\ version' = mark_lock(lock_snap[t])
            /\ lock_pc' = [lock_pc EXCEPT ![t] = "read"]
            /\ UNCHANGED lock_err
       ELSE /\ lock_err' = lock_err \cup {"VersionMismatch"}
            /\ lock_pc' = [lock_pc EXCEPT ![t] = "load"]
            /\ UNCHANGED version
    /\ UNCHANGED <<prefix_len, lock_snap, lock_tmp, lock_succ, lock_final>>
    /\ LockFrame

\* g.as_mut().prefix_len += 1: the read
IncrementRead(t) ==
    /\ lock_pc[t] = "read"
    /\ lock_tmp' = [lock_tmp EXCEPT ![t] = prefix_len]
    /\ lock_pc' = [lock_pc EXCEPT ![t] = "write"]
    /\ UNCHANGED <<version, prefix_len, lock_snap, lock_succ, lock_err, lock_final>>
    /\ LockFrame

\* g.as_mut().prefix_len += 1: the write
IncrementWrite(t) ==
    /\ lock_pc[t] = "write"
    /\ prefix_len' = lock_tmp[t] + 1
    /\ lock_pc' = [lock_pc EXCEPT ![t] = "drop"]
    /\ UNCHANGED <<version, lock_snap, lock_tmp, lock_succ, lock_err, lock_final>>
    /\ LockFrame

\* A drop that leaves the version as it is: the lock stays taken
GuardDrop_keeps_lock(t) ==
    /\ lock_pc[t] = "drop"
    /\ lock_succ' = [lock_succ EXCEPT ![t] = @ + 1]
    /\ lock_pc' = [lock_pc EXCEPT ![t] = IF lock_succ[t] + 1 = LockRounds
                                          THEN "done" ELSE "load"]
    /\ UNCHANGED <<version, prefix_len, lock_snap, lock_tmp, lock_err, lock_final>>
    /\ LockFrame

\* Drop for WriteGuard: version.fetch_add(0b10), then the next round
GuardDrop(t) ==
    /\ lock_pc[t] = "drop"
    /\ version' = version + 2
    /\ lock_succ' = [lock_succ EXCEPT ![t] = @ + 1]
    /\ lock_pc' = [lock_pc EXCEPT ![t] = IF lock_succ[t] + 1 = LockRounds
                                          THEN "done" ELSE "load"]
    /\ UNCHANGED <<prefix_len, lock_snap, lock_tmp, lock_err, lock_final>>
    /\ LockFrame

\* After the joins: IntenalNode::read, the read of prefix_len, reader.unlock()
FinalRead ==
    /\ \A t \in Threads : lock_pc[t] = "done"
    /\ ~lock_final.done
    /\ lock_final' = [done |-> TRUE,
                      ok |-> check_version(version) = "Ok",
                      prefix_len |-> prefix_len]
    /\ UNCHANGED <<version, prefix_len, lock_pc, lock_snap, lock_tmp, lock_succ, lock_err>>
    /\ LockFrame

LockNext ==
    \/ \E t \in Threads :
         WriteLoad(t) \/ WriteCas(t) \/ IncrementRead(t) \/ IncrementWrite(t) \/ GuardDrop(t)
    \/ FinalRead

\* The steps of thread t of tests::muil_threads
LockThread(t) ==
    WriteLoad(t) \/ WriteCas(t) \/ IncrementRead(t) \/ IncrementWrite(t) \/ GuardDrop(t)

\* Every spawned thread is an OS thread that keeps being scheduled, and the
\* main thread runs once the joins return.
LockFairness ==
    /\ \A t \in Threads : WF_vars(LockThread(t))
    /\ WF_vars(FinalRead)

(***************************************************************************)
(*                             SKIP LIST                                   *)
(*                                                                         *)
(* Keys are byte strings under the bytewise comparator.  A node is its     *)
(* index in sl_nodes; 0 is the null pointer, and as a tower 0 is the head. *)
(* Level i of the code is index i + 1 of a tower.                          *)
(***************************************************************************)

MAX_HEIGHT == 20

\* The number of insert() calls and the greatest height random_height draws.
MaxInserts == 3
MaxDrawnHeight == 3

Null == 0

\* Comparator::compare (left.cmp(right) on byte slices): -1, 0 or 1
RECURSIVE compare(_, _)
compare(left, right) ==
    IF left = <<>> /\ right = <<>> THEN 0
    ELSE IF left = <<>> THEN -1
    ELSE IF right = <<>> THEN 1
    ELSE IF left[1] < right[1] THEN -1
    ELSE IF left[1] > right[1] THEN 1
    ELSE compare(Tail(left), Tail(right))

IsCont(b, lo, hi) == b >= lo /\ b <= hi

\* String::from_utf8(bytes).is_ok(): the well-formed byte sequences of UTF-8
RECURSIVE from_utf8_ok(_)
from_utf8_ok(b) ==
    IF b = <<>> THEN TRUE
    ELSE LET c == b[1]
             n == Len(b)
         IN IF c < 128 THEN from_utf8_ok(Tail(b))
            ELSE IF c >= 194 /\ c <= 223
            THEN n >= 2 /\ IsCont(b[2], 128, 191) /\ from_utf8_ok(SubSeq(b, 3, n))
            ELSE IF c >= 224 /\ c <= 239
            THEN /\ n >= 3
                 /\ IsCont(b[2], IF c = 224 THEN 160 ELSE 128, IF c = 237 THEN 159 ELSE 191)
                 /\ IsCont(b[3], 128, 191)
                 /\ from_utf8_ok(SubSeq(b, 4, n))
            ELSE IF c >= 240 /\ c <= 244
            THEN /\ n >= 4
                 /\ IsCont(b[2], IF c = 240 THEN 144 ELSE 128, IF c = 244 THEN 143 ELSE 191)
                 /\ IsCont(b[3], 128, 191)
                 /\ IsCont(b[4], 128, 191)
                 /\ from_utf8_ok(SubSeq(b, 5, n))
            ELSE FALSE

\* Tower::get_next / Head::get_next: cur is a tower, 0 the head's
get_next(L, cur, level) ==
    IF cur = 0 THEN L.head[level + 1] ELSE L.nodes[cur].next[level + 1]

\* Tower::set_next / Head::set_next
set_next(L, cur, level, node) ==
    IF cur = 0 THEN [L EXCEPT !.head[level + 1] = node]
    ELSE [L EXCEPT !.nodes[cur].next[level + 1] = node]

\* key_le_node with a strict comparison (mutant)
key_lt_node(L, key, node) ==
    IF node = Null THEN TRUE ELSE compare(key, L.nodes[node].key) < 0

key_le_node(L, key, node) ==
    IF node = Null THEN TRUE ELSE compare(key, L.nodes[node].key) <= 0

\* The loop of search_ge_node from (level, cur); pref[level + 1] is the
\* predecessor recorded at level.
RECURSIVE search_ge_loop(_, _, _, _, _)
search_ge_loop(L, key, level, cur, pref) ==
    LET next == get_next(L, cur, level)
    IN IF key_le_node(L, key, next)
       THEN LET pref1 == [pref EXCEPT ![level + 1] = cur]
            IN IF level = 0 THEN [node |-> next, pref |-> pref1]
               ELSE search_ge_loop(L, key, level - 1, cur, pref1)
       ELSE search_ge_loop(L, key, level, next, pref)

\* search_ge_node(key, Some(pref)) with pref = [head; MAX_HEIGHT]
search_ge_node(L, key) ==
    search_ge_loop(L, key, L.max_level - 1, 0, [i \in 1..MAX_HEIGHT |-> 0])

RECURSIVE search_lt_loop(_, _, _, _, _)
search_lt_loop(L, key, level, cur, cur_node) ==
    LET next == get_next(L, cur, level)
    IN IF next = Null \/ ~(compare(L.nodes[next].key, key) < 0)
       THEN IF level = 0 THEN cur_node
            ELSE search_lt_loop(L, key, level - 1, cur, cur_node)
       ELSE search_lt_loop(L, key, level, next, next)

search_lt_node(L, key) == search_lt_loop(L, key, L.max_level - 1, 0, Null)

RECURSIVE search_last_loop(_, _, _, _)
search_last_loop(L, level, cur, cur_node) ==
    LET next == get_next(L, cur, level)
    IN IF next = Null
       THEN IF level = 0 THEN cur_node
            ELSE search_last_loop(L, level - 1, cur, cur_node)
       ELSE search_last_loop(L, level, next, next)

search_last(L) == search_last_loop(L, L.max_level - 1, 0, Null)

saerch_first(L) == get_next(L, 0, 0)

\* SkipList::contains
contains(L, key) ==
    LET node == search_ge_node(L, key).node
    IN node # Null /\ compare(key, L.nodes[node].key) = 0

\* The linking loop of insert: for i in i..height
RECURSIVE link(_, _, _, _, _)
link(L, new_node, pref, i, height) ==
    IF i >= height THEN L
    ELSE LET L1 == set_next(L, new_node, i, get_next(L, pref[i + 1], i))
             L2 == set_next(L1, pref[i + 1], i, new_node)
         IN link(L2, new_node, pref, i + 1, height)

\* insert without its "Key exists." assertion (mutant)
insert_unchecked(L, key, height) ==
    LET r == search_ge_node(L, key)
        new_node == Len(L.nodes) + 1
        L1 == [L EXCEPT !.nodes =
                  Append(@, [key |-> key, next |-> [i \in 1..height |-> Null]])]
        L2 == link(L1, new_node, r.pref, 0, height)
    IN [list |-> [L2 EXCEPT !.max_level = IF height > @ THEN height ELSE @],
        panic |-> ~from_utf8_ok(key)]

\* SkipList::insert with the height random_height() returned.  The result is
\* the list and whether the call panicked: on "Key exists.", or in
\* Node::alloc, which unwraps String::from_utf8 of the key.
insert(L, key, height) ==
    LET r == search_ge_node(L, key)
    IN IF r.node # Null /\ compare(L.nodes[r.node].key, key) = 0
       THEN [list |-> L, panic |-> TRUE]
       ELSE IF ~from_utf8_ok(key)
       THEN [list |-> L, panic |-> TRUE]
       ELSE LET new_node == Len(L.nodes) + 1
                L1 == [L EXCEPT !.nodes =
                          Append(@, [key |-> key, next |-> [i \in 1..height |-> Null]])]
                L2 == link(L1, new_node, r.pref, 0, height)
            IN [list |-> [L2 EXCEPT !.max_level = IF height > @ THEN height ELSE @],
                panic |-> FALSE]

\* Iter: seek_to_first, then key() and next() while is_valid()
RECURSIVE IterForward(_, _)
IterForward(L, node) ==
    IF node = Null THEN <<>>
    ELSE <<L.nodes[node].key>> \o IterForward(L, get_next(L, node, 0))

\* Iter: seek_to_last, then key() and prev() while is_valid()
RECURSIVE IterBackward(_, _)
IterBackward(L, node) ==
    IF node = Null THEN <<>>
    ELSE <<L.nodes[node].key>> \o IterBackward(L, search_lt_node(L, L.nodes[node].key))

(* ------------------------------ actions ------------------------------- *)

\* The keys offered to insert: the empty key, ASCII keys one of which is
\* a prefix of another, a two-byte UTF-8 character, and a byte that occurs in no
\* UTF-8 string.
SkipKeys == {<<>>, <<97>>, <<97, 98>>, <<98>>, <<195, 169>>, <<255>>}

SkipList == [head |-> sl_head, nodes |-> sl_nodes, max_level |-> max_level]

NoScan == [done |-> FALSE, found |-> {}, fwd |-> <<>>, bwd |-> <<>>]

\* The targets offered to Iter::seek: stored keys, and two that are never stored
SeekTargets == {<<96>>, <<97>>, <<97, 97>>, <<98>>, <<255>>}

NoSeek == [done |-> FALSE, target |-> <<>>, valid |-> FALSE, key |-> <<>>]

\* SkipList::new
SkipInit ==
    /\ sl_head = [i \in 1..MAX_HEIGHT |-> Null]
    /\ sl_nodes = <<>>
    /\ max_level = 1
    /\ sl_calls = <<>>
    /\ sl_panic = FALSE
    /\ sl_scan = NoScan
    /\ sl_seek = NoSeek

\* skip_list.insert(key) by the single writer, for a key not inserted before
SkipInsert ==
    /\ ~sl_panic
    /\ Len(sl_calls) < MaxInserts
    /\ \E key \in SkipKeys : \E height \in 1..MaxDrawnHeight :
         /\ \A i \in 1..Len(sl_calls) : sl_calls[i] # key
         /\ LET r == insert(SkipList, key, height)
            IN /\ sl_head' = r.list.head
               /\ sl_nodes' = r.list.nodes
               /\ max_level' = r.list.max_level
               /\ sl_panic' = r.panic
         /\ sl_calls' = Append(sl_calls, key)
    /\ sl_scan' = NoScan
    /\ sl_seek' = NoSeek
    /\ SkipFrame

\* skip_list.insert(key) for a key the list holds, as in tests::insert_twice
SkipInsertTwice ==
    /\ ~sl_panic
    /\ Len(sl_calls) < MaxInserts
    /\ \E key \in SkipKeys : \E height \in 1..MaxDrawnHeight :
         /\ \E i \in 1..Len(sl_calls) : sl_calls[i] = key
         /\ LET r == insert(SkipList, key, height)
            IN /\ sl_head' = r.list.head
               /\ sl_nodes' = r.list.nodes
               /\ max_level' = r.list.max_level
               /\ sl_panic' = r.panic
         /\ sl_calls' = Append(sl_calls, key)
    /\ sl_scan' = NoScan
    /\ sl_seek' = NoSeek
    /\ SkipFrame

\* contains(k) for every key, a forward and a backward iteration
SkipScan ==
    /\ ~sl_panic
    /\ ~sl_scan.done
    /\ sl_scan' = [done |-> TRUE,
                   found |-> {k \in SkipKeys : contains(SkipList, k)},
                   fwd |-> IterForward(SkipList, saerch_first(SkipList)),
                   bwd |-> IterBackward(SkipList, search_last(SkipList))]
    /\ sl_seek' = NoSeek
    /\ UNCHANGED <<sl_head, sl_nodes, max_level, sl_calls, sl_panic>>
    /\ SkipFrame

\* Iter::seek(target), then is_valid() and, when valid, key()
SkipSeek ==
    /\ ~sl_panic
    /\ \E target \in SeekTargets :
         LET node == search_ge_node(SkipList, target).node
         IN sl_seek' = [done |-> TRUE, target |-> target, valid |-> node # Null,
                        key |-> IF node # Null THEN sl_nodes[node].key ELSE <<>>]
    /\ sl_scan' = NoScan
    /\ UNCHANGED <<sl_head, sl_nodes, max_level, sl_calls, sl_panic>>
    /\ SkipFrame

SkipNext == SkipInsert \/ SkipInsertTwice \/ SkipScan \/ SkipSeek

(***************************************************************************)
(*                        SSTABLE DATA BLOCK                               *)
(*                                                                         *)
(* Blocks are byte sequences.  The VarInt trait (put_varint, from_varint)  *)
(* that block_builder.rs and block.rs import is not part of the sources;   *)
(* it is modelled from the specification's section 4.1 (unsigned LEB128).  *)
(***************************************************************************)

SIZE_U32 == 4

\* The number of entries added to a block and the greatest restart interval.
MaxEntries == 3
MaxInterval == 2

\* u32.put_varint: 7 bits a byte, least significant first, MSB = continue
RECURSIVE put_varint(_)
put_varint(n) ==
    IF n < 128 THEN <<n>> ELSE <<(n % 128) + 128>> \o put_varint(n \div 128)

\* VarInt::from_varint(&data[offset..]) for u32: the value and the number
\* of bytes read; it fails when the bytes end inside a value or the value has
\* more than five bytes.
RECURSIVE varint_loop(_, _, _, _, _)
varint_loop(data, pos, mult, acc, n) ==
    IF pos > Len(data) \/ n >= 5 THEN [ok |-> FALSE, value |-> 0, next |-> 0]
    ELSE IF data[pos] < 128
    THEN [ok |-> TRUE, value |-> acc + data[pos] * mult, next |-> n + 1]
    ELSE varint_loop(data, pos + 1, mult * 128, acc + (data[pos] % 128) * mult, n + 1)

from_varint(data, offset) == varint_loop(data, offset + 1, 1, 0, 0)

\* buf.put_u32_le(n)
put_u32_le(n) ==
    <<n % 256, (n \div 256) % 256, (n \div 65536) % 256, (n \div 16777216) % 256>>

\* (&data[at..]).get_u32_le()
get_u32_le(data, at) ==
    data[at + 1] + data[at + 2] * 256 + data[at + 3] * 65536 + data[at + 4] * 16777216

(* ---- BlockBuilder ---- *)

\* add() that matches no prefix (mutant)
shared_prefix_none(a, b, shared) == shared

\* The length of the common prefix of a and b, counted from shared
RECURSIVE shared_prefix(_, _, _)
shared_prefix(a, b, shared) ==
    IF shared < Min(Len(a), Len(b)) /\ a[shared + 1] = b[shared + 1]
    THEN shared_prefix(a, b, shared + 1)
    ELSE shared

\* add() without its ordering assertion (mutant)
add_asserts_unordered(B, fin, interval, key) ==
    ~fin /\ B.counter <= interval

\* The three assertions of BlockBuilder::add, in order
add_asserts(B, fin, interval, key) ==
    /\ ~fin
    /\ B.counter <= interval
    /\ B.buf = <<>> \/ compare(key, B.last_key) >= 0

\* BlockBuilder::add past its assertions, on the builder
\* B = [buf, restarts, last_key, counter]
add(B, interval, key, value) ==
    LET restart == ~(B.counter < interval)
        shared == IF restart THEN 0 ELSE shared_prefix(B.last_key, key, 0)
        non_shared == Len(key) - shared
    IN [buf |-> B.buf \o put_varint(shared) \o put_varint(non_shared)
                   \o put_varint(Len(value))
                   \o SubSeq(key, shared + 1, Len(key)) \o value,
        restarts |-> IF restart THEN Append(B.restarts, Len(B.buf)) ELSE B.restarts,
        last_key |-> key,
        counter |-> (IF restart THEN 0 ELSE B.counter) + 1]

RECURSIVE put_restarts(_, _)
put_restarts(rs, i) ==
    IF i > Len(rs) THEN <<>> ELSE put_u32_le(rs[i]) \o put_restarts(rs, i + 1)

\* BlockBuilder::finish: the restart tail
finish(B) == B.buf \o put_restarts(B.restarts, 1) \o put_u32_le(Len(B.restarts))

(* ---- Block and BlockIter ---- *)

\* Block::new
Block_new(data) ==
    IF Len(data) < 4 THEN [ok |-> FALSE, data |-> data, restart_offset |-> 0, restart_count |-> 0]
    ELSE LET max_restarts_allowed == (Len(data) - SIZE_U32) \div SIZE_U32
             restart_count == get_u32_le(data, Len(data) - SIZE_U32)
         IN IF restart_count <= max_restarts_allowed
            THEN [ok |-> TRUE, data |-> data,
                  restart_offset |-> Len(data) - (1 + restart_count) * SIZE_U32,
                  restart_count |-> restart_count]
            ELSE [ok |-> FALSE, data |-> data, restart_offset |-> 0, restart_count |-> 0]

\* BlockIter::new; status is "none", "corruption", or "panic" once an
\* assert or unwrap of the iterator has failed.
BlockIter_new(blk) ==
    [current |-> blk.restart_count, restart_index |-> 0, key |-> <<>>,
     shared_len |-> 0, non_shared_len |-> 0, key_offset |-> 0, value_len |-> 0,
     status |-> "none"]

next_entry_offset(it) == it.key_offset + it.non_shared_len + it.value_len

get_restart_point(blk, index) == get_u32_le(blk.data, blk.restart_offset + index * SIZE_U32)

seek_to_restart_point(blk, it, index) ==
    IF ~(index < blk.restart_count) THEN [it EXCEPT !.status = "panic"]
    ELSE [it EXCEPT !.key = <<>>, !.restart_index = index,
                    !.current = get_restart_point(blk, index)]

corruption(blk, it) ==
    [it EXCEPT !.current = blk.restart_offset, !.restart_index = blk.restart_count,
               !.status = "corruption"]

\* The loop at the end of parse_next_entry
RECURSIVE advance_restart_index(_, _, _)
advance_restart_index(blk, restart_index, current) ==
    IF restart_index + 1 < blk.restart_count
           /\ get_restart_point(blk, restart_index + 1) < current
    THEN advance_restart_index(blk, restart_index + 1, current)
    ELSE restart_index

\* BlockIter::parse_next_entry: the iterator and the returned bool
parse_next_entry(blk, it) ==
    IF it.current >= blk.restart_offset
    THEN [it |-> [it EXCEPT !.current = blk.restart_offset,
                            !.restart_index = blk.restart_count],
          ret |-> FALSE]
    ELSE LET v1 == from_varint(blk.data, it.current)
             v2 == from_varint(blk.data, it.current + v1.next)
             v3 == from_varint(blk.data, it.current + v1.next + v2.next)
             offset == it.current + v1.next + v2.next + v3.next
         IN IF ~(v1.ok /\ v2.ok /\ v3.ok)
            THEN [it |-> [it EXCEPT !.status = "panic"], ret |-> FALSE]
            ELSE IF offset + v2.value + v3.value > blk.restart_offset
            THEN [it |-> corruption(blk, it), ret |-> FALSE]
            ELSE [it |-> [it EXCEPT
                            !.key_offset = offset,
                            !.shared_len = v1.value,
                            !.non_shared_len = v2.value,
                            !.value_len = v3.value,
                            !.key = [i \in 1..(v1.value + v2.value) |->
                                       IF i <= v1.value
                                       THEN (IF i <= Len(it.key) THEN it.key[i] ELSE 0)
                                       ELSE blk.data[offset + i - v1.value]],
                            !.restart_index =
                                advance_restart_index(blk, it.restart_index, it.current)],
                  ret |-> TRUE]

\* BlockIter::is_valid
is_valid(blk, it) == it.status = "none" /\ it.current < blk.restart_count

\* BlockIter::next
next(blk, it) ==
    IF ~is_valid(blk, it) THEN [it EXCEPT !.status = "panic"]
    ELSE parse_next_entry(blk, [it EXCEPT !.current = next_entry_offset(it)]).it

\* BlockIter::value
value(blk, it) ==
    SubSeq(blk.data, next_entry_offset(it) - it.value_len + 1, next_entry_offset(it))

\* BlockIter::seek_to_first
seek_to_first(blk, it) == parse_next_entry(blk, seek_to_restart_point(blk, it, 0)).it

\* The binary search of seek over the restart points: the index l it ends
\* with, or -1 when a restart entry has shared_len # 0 (corruption)
RECURSIVE seek_restart(_, _, _, _)
seek_restart(blk, target, l, r) ==
    IF ~(l < r) THEN l
    ELSE LET mid == (l + r + 1) \div 2
             region_offset == get_restart_point(blk, mid)
             v1 == from_varint(blk.data, region_offset)
             v2 == from_varint(blk.data, region_offset + v1.next)
             v3 == from_varint(blk.data, region_offset + v1.next + v2.next)
             key_offset == region_offset + v1.next + v2.next + v3.next
             mid_key == SubSeq(blk.data, key_offset + 1, key_offset + v1.value + v2.value)
         IN IF v1.value # 0 THEN -1
            ELSE IF compare(mid_key, target) < 0
            THEN seek_restart(blk, target, mid, r)
            ELSE seek_restart(blk, target, l, mid - 1)

\* The linear loop of seek
RECURSIVE seek_linear(_, _, _)
seek_linear(blk, it, target) ==
    LET p == parse_next_entry(blk, it)
    IN IF ~p.ret THEN p.it
       ELSE IF ~(compare(p.it.key, target) < 0) THEN p.it
       ELSE seek_linear(blk, [p.it EXCEPT !.current = next_entry_offset(p.it)], target)

\* BlockIter::seek
seek(blk, it, target) ==
    LET l == seek_restart(blk, target, 0, blk.restart_count - 1)
    IN IF l < 0 THEN corruption(blk, it)
       ELSE seek_linear(blk, seek_to_restart_point(blk, it, l), target)

\* The first loop of prev: the restart index it ends with, or -1 when it
\* panics. get_restart_point asserts index < restart_count. At restart_index 0
\* `self.restart_index -= 1` overflows: a debug build panics there, a release
\* build wraps to u32::MAX and the assertion of get_restart_point panics in
\* the loop's next test. -2 is the return inside the loop.
RECURSIVE prev_restart_index(_, _, _)
prev_restart_index(blk, restart_index, original) ==
    IF ~(restart_index < blk.restart_count) THEN -1
    ELSE IF get_restart_point(blk, restart_index) >= original
    THEN IF blk.restart_count = 0 THEN -2
         ELSE IF restart_index = 0 THEN -1
         ELSE prev_restart_index(blk, restart_index - 1, original)
    ELSE restart_index

\* The second loop of prev
RECURSIVE prev_linear(_, _, _)
prev_linear(blk, it, original) ==
    LET p == parse_next_entry(blk, it)
    IN IF p.ret /\ next_entry_offset(p.it) < original
       THEN prev_linear(blk, [p.it EXCEPT !.current = next_entry_offset(p.it)], original)
       ELSE p.it

\* BlockIter::prev
BlockIter_prev(blk, it) ==
    IF ~is_valid(blk, it) THEN [it EXCEPT !.status = "panic"]
    ELSE LET original == it.current
             index == prev_restart_index(blk, it.restart_index, original)
         IN IF index = -1 THEN [it EXCEPT !.status = "panic"]
            ELSE IF index = -2
            THEN [it EXCEPT !.current = blk.restart_offset,
                            !.restart_index = blk.restart_count]
            ELSE prev_linear(blk, seek_to_restart_point(blk, it, index), original)

\* next() n times
RECURSIVE next_times(_, _, _)
next_times(blk, it, n) == IF n = 0 THEN it ELSE next_times(blk, next(blk, it), n - 1)

\* seek_to_first, then (key(), value()) and next() while is_valid(); at most
\* fuel entries are taken, ended says whether is_valid() became false.
RECURSIVE iterate(_, _, _, _)
iterate(blk, it, fuel, pairs) ==
    IF ~is_valid(blk, it) THEN [pairs |-> pairs, ended |-> TRUE, status |-> it.status]
    ELSE IF fuel = 0 THEN [pairs |-> pairs, ended |-> FALSE, status |-> it.status]
    ELSE iterate(blk, next(blk, it), fuel - 1, Append(pairs, <<it.key, value(blk, it)>>))

(* ------------------------------ actions ------------------------------- *)

BlockKeys == {<<>>, <<1>>, <<1, 1>>, <<1, 2>>, <<2>>}

BlockValues == {<<>>, <<7>>}

Builder == [buf |-> bb_buf, restarts |-> restarts, last_key |-> last_key, counter |-> counter]

NoBlockScan == [done |-> FALSE, pairs |-> <<>>, ended |-> FALSE, status |-> "none"]

NoBlockSeek == [done |-> FALSE, target |-> <<>>, valid |-> FALSE, key |-> <<>>, value |-> <<>>]

NoBlockPrev == [done |-> FALSE, pos |-> 0, was_valid |-> FALSE, valid |-> FALSE,
                key |-> <<>>, status |-> "none"]

\* BlockBuilder::new with a restart interval > 0
BlockInit ==
    /\ block_restart_interval \in 1..MaxInterval
    /\ bb_buf = <<>>
    /\ restarts = <<0>>
    /\ last_key = <<>>
    /\ counter = 0
    /\ finished = FALSE
    /\ bb_added = <<>>
    /\ blk_scan = NoBlockScan
    /\ blk_seek = NoBlockSeek
    /\ blk_prev = NoBlockPrev
    /\ bb_step = [op |-> "new", key |-> <<>>]
    /\ bb_panic = FALSE

\* builder.add(key, value), with any key and in any state of the builder:
\* a failed assertion unwinds before the builder is touched
BlockAdd ==
    /\ ~bb_panic
    /\ Len(bb_added) < MaxEntries
    /\ \E key \in BlockKeys : \E val \in BlockValues :
         /\ bb_step' = [op |-> "add", key |-> key]
         /\ IF add_asserts(Builder, finished, block_restart_interval, key)
            THEN LET B == add(Builder, block_restart_interval, key, val)
                 IN /\ bb_buf' = B.buf
                    /\ restarts' = B.restarts
                    /\ last_key' = B.last_key
                    /\ counter' = B.counter
                    /\ bb_added' = Append(bb_added, <<key, val>>)
                    /\ UNCHANGED bb_panic
            ELSE /\ bb_panic' = TRUE
                 /\ UNCHANGED <<bb_buf, restarts, last_key, counter, bb_added>>
    /\ UNCHANGED <<finished, block_restart_interval, blk_scan, blk_seek, blk_prev>>
    /\ BlockFrame

\* builder.finish(), in any state of the builder
BlockFinish ==
    /\ ~bb_panic
    /\ bb_step' = [op |-> "finish", key |-> <<>>]
    /\ IF ~finished
       THEN /\ bb_buf' = finish(Builder)
            /\ finished' = TRUE
            /\ UNCHANGED bb_panic
       ELSE /\ bb_panic' = TRUE
            /\ UNCHANGED <<bb_buf, finished>>
    /\ UNCHANGED <<restarts, last_key, counter, block_restart_interval, bb_added,
                   blk_scan, blk_seek, blk_prev>>
    /\ BlockFrame

\* builder.reset(), in any state of the builder
BlockReset ==
    /\ ~bb_panic
    /\ bb_step' = [op |-> "reset", key |-> <<>>]
    /\ IF finished
       THEN /\ bb_buf' = <<>>
            /\ finished' = FALSE
            /\ counter' = 0
            /\ restarts' = <<0>>
            /\ last_key' = <<>>
            /\ bb_added' = <<>>
            /\ blk_scan' = NoBlockScan
            /\ blk_seek' = NoBlockSeek
            /\ blk_prev' = NoBlockPrev
            /\ UNCHANGED bb_panic
       ELSE /\ bb_panic' = TRUE
            /\ UNCHANGED <<bb_buf, finished, counter, restarts, last_key, bb_added,
                           blk_scan, blk_seek, blk_prev>>
    /\ UNCHANGED block_restart_interval
    /\ BlockFrame

\* Block::new(finished bytes).iter(): seek_to_first and next while is_valid
BlockIterate ==
    /\ finished
    /\ ~bb_panic
    /\ ~blk_scan.done
    /\ LET blk == Block_new(bb_buf)
           r == iterate(blk, seek_to_first(blk, BlockIter_new(blk)),
                        Len(bb_added) + 1, <<>>)
       IN blk_scan' = [done |-> TRUE, pairs |-> r.pairs, ended |-> r.ended,
                       status |-> r.status]
    /\ bb_step' = [op |-> "iter", key |-> <<>>]
    /\ UNCHANGED <<bb_buf, restarts, last_key, counter, finished, block_restart_interval,
                   bb_added, blk_seek, bb_panic>>
    /\ blk_prev' = NoBlockPrev
    /\ BlockFrame

\* Block::new(finished bytes).iter().seek(target)
BlockSeek ==
    /\ finished
    /\ ~bb_panic
    /\ \E target \in BlockKeys :
         LET blk == Block_new(bb_buf)
             it == seek(blk, BlockIter_new(blk), target)
         IN blk_seek' = [done |-> TRUE, target |-> target,
                         valid |-> is_valid(blk, it),
                         key |-> it.key, value |-> value(blk, it)]
    /\ bb_step' = [op |-> "seek", key |-> <<>>]
    /\ UNCHANGED <<bb_buf, restarts, last_key, counter, finished, block_restart_interval,
                   bb_added, blk_scan, bb_panic>>
    /\ blk_prev' = NoBlockPrev
    /\ BlockFrame

\* Block::new(finished bytes).iter(): seek_to_first, next() pos times, prev().
\* The records of the iterators keep the last prev or the scan and seek after it.
BlockPrev ==
    /\ finished
    /\ ~bb_panic
    /\ \E pos \in 0..(MaxEntries - 1) :
         /\ pos < Len(bb_added)
         /\ LET blk == Block_new(bb_buf)
                it0 == next_times(blk, seek_to_first(blk, BlockIter_new(blk)), pos)
                it == BlockIter_prev(blk, it0)
            IN blk_prev' = [done |-> TRUE, pos |-> pos, was_valid |-> is_valid(blk, it0),
                            valid |-> is_valid(blk, it), key |-> it.key,
                            status |-> it.status]
    /\ bb_step' = [op |-> "prev", key |-> <<>>]
    /\ UNCHANGED <<bb_buf, restarts, last_key, counter, finished, block_restart_interval,
                   bb_added, bb_panic>>
    /\ blk_scan' = NoBlockScan
    /\ blk_seek' = NoBlockSeek
    /\ BlockFrame

BlockNext == BlockAdd \/ BlockFinish \/ BlockReset \/ BlockIterate \/ BlockSeek \/ BlockPrev

(***************************************************************************)
(*                       ADAPTIVE RADIX TREE                               *)
(*                                                                         *)
(* ArtInner::new and the construction of every leaf and inner node are     *)
(* todo!() in the sources, and the node operations insert_inner calls      *)
(* (prefix_matches, get_child, is_full, ...) are not part of them.  So     *)
(* that insert_inner can be followed at all, the tree starts from the root *)
(* the specification's section 4.8 describes: a Node4 with an empty prefix *)
(* and no child.  As no insert gets past its todo!(), the root never has a *)
(* child, and of insert_inner only the "full prefix match, no child, node  *)
(* not full" path is reachable; that path is what is modelled.             *)
(***************************************************************************)

\* The number of writer threads; thread t inserts key <<t, 0>>.
ArtThreads == 3

ArtWriters == 1..ArtThreads

ArtKey(t) == <<t, 0>>

\* The root of a new tree, per the specification
ArtRoot == [version |-> 0, prefix_len |-> 0, children |-> {}]

\* ReadGuard::prefix_matches on a node with an empty prefix
prefix_matches(node, key) == node.prefix_len

\* ReadGuard::get_child: "Leaf" if the node has a child at byte, else "None"
get_child(node, byte) == IF byte \in node.children THEN "Leaf" ELSE "None"

\* ReadGuard::is_full for a Node4
is_full(node) == Cardinality(node.children) >= 4

\* The root exists only in the model: ArtInner::new is todo!()
ArtInit ==
    /\ art_built = FALSE
    /\ art_root = ArtRoot
    /\ art_pc = [t \in ArtWriters |-> "idle"]
    /\ art_guard = [t \in ArtWriters |-> 0]
    /\ art_err = [t \in ArtWriters |-> "none"]
    /\ art_panics = {}
    /\ art_get = [t \in ArtWriters |-> "none"]

\* Art::new() -> ArtInner::new() -> todo!()
ArtNew ==
    /\ ~art_built
    /\ art_built' = TRUE
    /\ art_panics' = art_panics \cup {<<0, "ArtInner::new">>}
    /\ art_pc' = [t \in ArtWriters |-> "read"]
    /\ UNCHANGED <<art_root, art_guard, art_err, art_get>>
    /\ ArtFrame

\* insert_inner: IntenalNode::read(self.root); an Err restarts the insert
InsertRead(t) ==
    /\ art_pc[t] = "read"
    /\ IF check_version(art_root.version) = "Ok"
       THEN /\ art_guard' = [art_guard EXCEPT ![t] = art_root.version]
            /\ art_pc' = [art_pc EXCEPT ![t] = "descend"]
            /\ UNCHANGED art_err
       ELSE /\ art_err' = [art_err EXCEPT ![t] = check_version(art_root.version)]
            /\ UNCHANGED <<art_guard, art_pc>>
    /\ UNCHANGED <<art_built, art_root, art_panics, art_get>>
    /\ ArtFrame

\* insert_inner: prefix_matches, get_child(key[depth]), cur.check_version();
\* with the prefix matched and no child, on to cur.upgrade()
InsertDescend(t) ==
    /\ art_pc[t] = "descend"
    /\ prefix_matches(art_root, ArtKey(t)) = art_root.prefix_len
    /\ get_child(art_root, ArtKey(t)[1]) = "None"
    /\ ~is_full(art_root)
    /\ IF check_version(art_root.version) # "Ok"
       THEN /\ art_err' = [art_err EXCEPT ![t] = check_version(art_root.version)]
            /\ art_pc' = [art_pc EXCEPT ![t] = "read"]
       ELSE IF art_root.version # art_guard[t]
       THEN /\ art_err' = [art_err EXCEPT ![t] = "VersionMismatch"]
            /\ art_pc' = [art_pc EXCEPT ![t] = "read"]
       ELSE /\ art_pc' = [art_pc EXCEPT ![t] = "upgrade"]
            /\ UNCHANGED art_err
    /\ UNCHANGED <<art_built, art_root, art_guard, art_panics, art_get>>
    /\ ArtFrame

\* ReadGuard::upgrade -> IntenalNode::write: check_version loads the version
\* anew; the version the read guard holds is not compared with it
UpgradeLoad(t) ==
    /\ art_pc[t] = "upgrade"
    /\ IF check_version(art_root.version) = "Ok"
       THEN /\ art_guard' = [art_guard EXCEPT ![t] = art_root.version]
            /\ art_pc' = [art_pc EXCEPT ![t] = "cas"]
            /\ UNCHANGED art_err
       ELSE /\ art_err' = [art_err EXCEPT ![t] = check_version(art_root.version)]
            /\ art_pc' = [art_pc EXCEPT ![t] = "read"]
            /\ UNCHANGED art_guard
    /\ UNCHANGED <<art_built, art_root, art_panics, art_get>>
    /\ ArtFrame

\* IntenalNode::write: compare_exchange(version, mark_lock(version))
UpgradeCas(t) ==
    /\ art_pc[t] = "cas"
    /\ IF art_root.version = art_guard[t]
       THEN /\ art_root' = [art_root EXCEPT !.version = mark_lock(art_guard[t])]
            /\ art_pc' = [art_pc EXCEPT ![t] = "new_leaf"]
            /\ UNCHANGED art_err
       ELSE /\ art_err' = [art_err EXCEPT ![t] = "VersionMismatch"]
            /\ art_pc' = [art_pc EXCEPT ![t] = "read"]
            /\ UNCHANGED art_root
    /\ UNCHANGED <<art_built, art_guard, art_panics, art_get>>
    /\ ArtFrame

\* let new_leaf: NonNull<LeafNode> = todo!(): the thread panics under the
\* write guard, and the unwinding drops the guard (version.fetch_add(0b10))
InsertNewLeaf(t) ==
    /\ art_pc[t] = "new_leaf"
    /\ art_panics' = art_panics \cup {<<t, "new_leaf">>}
    /\ art_root' = [art_root EXCEPT !.version = @ + 2]
    /\ art_pc' = [art_pc EXCEPT ![t] = "panicked"]
    /\ UNCHANGED <<art_built, art_guard, art_err, art_get>>
    /\ ArtFrame

\* After the writers have ended: get(key) -> get_inner on the root
ArtGet(t) ==
    /\ \A w \in ArtWriters : art_pc[w] = "panicked"
    /\ art_get[t] = "none"
    /\ check_version(art_root.version) = "Ok"
    /\ art_get' = [art_get EXCEPT ![t] =
                     IF prefix_matches(art_root, ArtKey(t)) # art_root.prefix_len
                     THEN "absent"
                     ELSE IF get_child(art_root, ArtKey(t)[1]) = "None" THEN "absent"
                     ELSE "found"]
    /\ UNCHANGED <<art_built, art_root, art_pc, art_guard, art_err, art_panics>>
    /\ ArtFrame

ArtNext ==
    \/ ArtNew
    \/ \E t \in ArtWriters :
         \/ InsertRead(t)
         \/ InsertDescend(t)
         \/ UpgradeLoad(t)
         \/ UpgradeCas(t)
         \/ InsertNewLeaf(t)
         \/ ArtGet(t)

(***************************************************************************)
(*                 SKIP LIST: ONE WRITER, LOCK-FREE READERS                *)
(*                                                                         *)
(* insert() is taken one atomic store at a time, contains() one atomic     *)
(* load at a time.  Only the writer stores, so its own search is one step. *)
(***************************************************************************)

\* insert() calls, the greatest height drawn, and the reader threads
MaxConcInserts == 3
MaxConcHeight == 2
ConcReaders == 1

ConcKeys == {<<97>>, <<97, 98>>, <<255>>}

\* One iteration of `for i in 0..height`, in the mutant's order: the
\* predecessor is redirected before the new node's pointer is stored.
link_step_publish_first(L, new_node, pref, i, phase) ==
    IF phase = 0 THEN set_next(L, pref[i + 1], i, new_node)
    ELSE set_next(L, new_node, i, get_next(L, pref[i + 1], i))

\* One iteration of `for i in 0..height`, a store at a time: phase 0 is
\* (*new_node).tower.set_next(i, (*pref[i]).get_next(i)), phase 1 is
\* (*pref[i]).set_next(i, new_node).
link_step(L, new_node, pref, i, phase) ==
    IF phase = 0 THEN set_next(L, new_node, i, get_next(L, pref[i + 1], i))
    ELSE set_next(L, pref[i + 1], i, new_node)

WriterIdle == [pc |-> "idle", key |-> <<>>, height |-> 0,
               pref |-> [i \in 1..MAX_HEIGHT |-> 0], new_node |-> Null, i |-> 0,
               init |-> {}]

ReaderIdle == [pc |-> "idle", key |-> <<>>, level |-> 0, cur |-> 0,
               after |-> FALSE, mid |-> FALSE, result |-> FALSE]

\* SkipList::new, nobody inside a call
ConcInit ==
    /\ csl = [head |-> [i \in 1..MAX_HEIGHT |-> Null], nodes |-> <<>>, max_level |-> 1]
    /\ cw = WriterIdle
    /\ cr = [r \in 1..ConcReaders |-> ReaderIdle]
    /\ c_returned = {}
    /\ c_calls = {}

\* insert(key) up to the linking loop: search_ge_node with pref, the
\* "Key exists." assertion (the key is new), random_height, Node::alloc.
\* Node::alloc writes the key, zeroes the tower, then unwraps
\* String::from_utf8 of the key: the writer dies there with nothing linked.
ConcInsertAlloc ==
    /\ cw.pc = "idle"
    /\ Cardinality(c_calls) < MaxConcInserts
    /\ \E key \in ConcKeys \ c_calls : \E height \in 1..MaxConcHeight :
         LET r == search_ge_node(csl, key)
         IN /\ c_calls' = c_calls \cup {key}
            /\ IF ~from_utf8_ok(key)
               THEN /\ cw' = [WriterIdle EXCEPT !.pc = "panicked", !.key = key]
                    /\ csl' = csl
               ELSE /\ csl' = [csl EXCEPT !.nodes =
                                  Append(@, [key |-> key, next |-> [i \in 1..height |-> Null]])]
                    /\ cw' = [pc |-> "set", key |-> key, height |-> height,
                              pref |-> r.pref, new_node |-> Len(csl.nodes) + 1,
                              i |-> 0, init |-> {}]
    /\ UNCHANGED <<cr, c_returned>>
    /\ ConcFrame

\* (*new_node).tower.set_next(i, (*pref[i]).get_next(i))
ConcSetNext ==
    /\ cw.pc = "set"
    /\ csl' = link_step(csl, cw.new_node, cw.pref, cw.i, 0)
    /\ cw' = [cw EXCEPT !.pc = "publish", !.init = @ \cup {cw.i}]
    /\ UNCHANGED <<cr, c_returned, c_calls>>
    /\ ConcFrame

\* (*pref[i]).set_next(i, new_node), and the loop's next i
ConcPublish ==
    /\ cw.pc = "publish"
    /\ csl' = link_step(csl, cw.new_node, cw.pref, cw.i, 1)
    /\ cw' = [cw EXCEPT !.i = @ + 1,
                        !.pc = IF cw.i + 1 < cw.height THEN "set" ELSE "level"]
    /\ UNCHANGED <<cr, c_returned, c_calls>>
    /\ ConcFrame

\* if height > self.max_level() { self.max_level.store(height) }; return
ConcStoreMaxLevel ==
    /\ cw.pc = "level"
    /\ csl' = [csl EXCEPT !.max_level = IF cw.height > @ THEN cw.height ELSE @]
    /\ cw' = WriterIdle
    /\ c_returned' = c_returned \cup {cw.key}
    /\ UNCHANGED <<cr, c_calls>>
    /\ ConcFrame

\* A reader enters contains(key): search_ge_node loads max_level and starts
\* at the head.
ConcReadStart(r) ==
    /\ cr[r].pc \in {"idle", "done"}
    /\ \E key \in ConcKeys :
         cr' = [cr EXCEPT ![r] =
                   [pc |-> "loop", key |-> key, level |-> csl.max_level - 1, cur |-> 0,
                    after |-> key \in c_returned,
                    mid |-> cw.pc \in {"set", "publish", "level"},
                    result |-> FALSE]]
    /\ UNCHANGED <<csl, cw, c_returned, c_calls>>
    /\ ConcFrame

\* One iteration of the loop of search_ge_node: one get_next load; at level
\* 0 the loop returns and contains compares the key of the node found.
ConcReadStep(r) ==
    /\ cr[r].pc = "loop"
    /\ LET me == cr[r]
           nxt == get_next(csl, me.cur, me.level)
       IN cr' = [cr EXCEPT ![r] =
                    IF key_le_node(csl, me.key, nxt)
                    THEN IF me.level = 0
                         THEN [me EXCEPT !.pc = "done",
                                         !.result = nxt # Null
                                                    /\ compare(me.key, csl.nodes[nxt].key) = 0]
                         ELSE [me EXCEPT !.level = @ - 1]
                    ELSE [me EXCEPT !.cur = nxt]]
    /\ UNCHANGED <<csl, cw, c_returned, c_calls>>
    /\ ConcFrame

ConcNext ==
    \/ ConcInsertAlloc
    \/ ConcSetNext
    \/ ConcPublish
    \/ ConcStoreMaxLevel
    \/ \E r \in 1..ConcReaders : ConcReadStart(r) \/ ConcReadStep(r)

(***************************************************************************)
(*                            BLOOM FILTER                                 *)
(*                                                                         *)
(* A u32 is the pair <<hi, lo>> of its 16-bit halves.  A filter is its      *)
(* length in bytes, the set of its one bits as <<byte index, bit>>, and    *)
(* its last byte.  BasicHash is not part of the sources: a key is given by *)
(* the u32 it hashes to.                                                   *)
(***************************************************************************)

\* The keys handed to build
MaxBloomKeys == 3

\* 2^29: bytes * 8, cast to u32, is (bytes % TwoTo29) * 8
TwoTo29 == 536870912

BloomBitsPerKey == {0, 1, 10, 100, 2147483647}

BloomHashes == {<<0, 0>>, <<0, 1>>, <<1, 32768>>, <<43690, 21845>>, <<65535, 65535>>}

\* (h >> 17) | (h << 15)
delta_of(h) ==
    <<(h[1] % 2) * 32768 + (h[2] \div 2), (h[2] % 2) * 32768 + (h[1] \div 2)>>

\* h.wrapping_add(delta)
wrapping_add(h, delta) ==
    <<(h[1] + delta[1] + ((h[2] + delta[2]) \div 65536)) % 65536, (h[2] + delta[2]) % 65536>>

\* bit_pos = h % (bits as u32), as <<bit_pos / 8, bit_pos % 8>>; bits is
\* bytes * 8, so bit_pos / 8 = (h / 8) % (bits / 8) and bit_pos % 8 = h % 8
bit_pos(h, bytes) ==
    <<(h[1] * 8192 + (h[2] \div 8)) % (bytes % TwoTo29), h[2] % 8>>

\* (bits as u32) = 0, where h % bits panics
zero_bits(bytes) == bytes % TwoTo29 = 0

\* BloomBuilder::new: ((bits_per_key as f64 * 0.69) as usize).max(1).min(30)
k_num(bpk) == Min(30, Max(1, IF bpk > 100 THEN 69 ELSE (bpk * 69) \div 100))

\* bytes = (max(keys.len() * bits_per_key, 64) + 7) / 8, with the product
\* taken on bits_per_key / 8 and bits_per_key % 8
filter_bytes(n, bpk) == Max(8, n * (bpk \div 8) + (n * (bpk % 8) + 7) \div 8)

\* `for _ in 0..self.k_num` of build for one key: the bits it sets
RECURSIVE set_bits(_, _, _, _)
set_bits(h, delta, bytes, n) ==
    IF n = 0 THEN {}
    ELSE {bit_pos(h, bytes)} \cup set_bits(wrapping_add(h, delta), delta, bytes, n - 1)

RECURSIVE build_keys(_, _, _, _)
build_keys(keys, i, bytes, k) ==
    IF i > Len(keys) THEN {}
    ELSE set_bits(keys[i], delta_of(keys[i]), bytes, k) \cup build_keys(keys, i + 1, bytes, k)

\* BloomBuilder::build
build(bpk, keys) ==
    LET bytes == filter_bytes(Len(keys), bpk)
    IN IF keys # <<>> /\ zero_bits(bytes)
       THEN [panic |-> TRUE, len |-> 0, bits |-> {}, last |-> 0]
       ELSE [panic |-> FALSE, len |-> bytes + 1,
             bits |-> build_keys(keys, 1, bytes, k_num(bpk)), last |-> k_num(bpk)]

\* `for _ in 0..k` of may_contain
RECURSIVE test_bits(_, _, _, _, _)
test_bits(filter, h, delta, bytes, n) ==
    IF n = 0 THEN TRUE
    ELSE IF bit_pos(h, bytes) \notin filter.bits THEN FALSE
    ELSE test_bits(filter, wrapping_add(h, delta), delta, bytes, n - 1)

\* BloomBuilder::may_contain
may_contain(filter, h) ==
    IF filter.len < 1 THEN [panic |-> FALSE, result |-> FALSE]
    ELSE IF filter.last > 30 THEN [panic |-> FALSE, result |-> TRUE]
    ELSE IF filter.last > 0 /\ zero_bits(filter.len - 1)
    THEN [panic |-> TRUE, result |-> FALSE]
    ELSE [panic |-> FALSE,
          result |-> test_bits(filter, h, delta_of(h), filter.len - 1, filter.last)]

(* ------------------------------ actions ------------------------------- *)

RECURSIVE KeySeqs(_)
KeySeqs(n) ==
    IF n = 0 THEN {<<>>}
    ELSE KeySeqs(n - 1) \cup {Append(ks, h) : ks \in {s \in KeySeqs(n - 1) : Len(s) = n - 1},
                                              h \in BloomHashes}

NoFilter == [panic |-> FALSE, len |-> 0, bits |-> {}, last |-> 0, built |-> FALSE]

NoBloomQuery == [done |-> FALSE, key |-> <<0, 0>>, panic |-> FALSE, result |-> FALSE]

\* BloomBuilder::new(bits_per_key) and the keys to build from
BloomInit ==
    /\ bits_per_key \in BloomBitsPerKey
    /\ bl_keys \in KeySeqs(MaxBloomKeys)
    /\ bl_filter = NoFilter
    /\ bl_query = NoBloomQuery

\* builder.build(&keys)
BloomBuild ==
    /\ ~bl_filter.built
    /\ LET f == build(bits_per_key, bl_keys)
       IN bl_filter' = [panic |-> f.panic, len |-> f.len, bits |-> f.bits,
                        last |-> f.last, built |-> TRUE]
    /\ UNCHANGED <<bits_per_key, bl_keys, bl_query>>
    /\ BloomFrame

\* BloomBuilder::may_contain(&filter, &key)
BloomMayContain ==
    /\ bl_filter.built
    /\ ~bl_filter.panic
    /\ \E h \in BloomHashes :
         LET r == may_contain(bl_filter, h)
         IN bl_query' = [done |-> TRUE, key |-> h, panic |-> r.panic, result |-> r.result]
    /\ UNCHANGED <<bits_per_key, bl_keys, bl_filter>>
    /\ BloomFrame

BloomNext == BloomBuild \/ BloomMayContain

(***************************************************************************)
(*                            FILTER BLOCK                                 *)
(*                                                                         *)
(* The block is a byte sequence.  The policy is the TestHashFilter of the  *)
(* module's tests: a filter is the u32 hashes of its keys.                 *)
(***************************************************************************)

FILTER_BASE_LG == 11
FILTER_BASE == 2048

\* The start_block and add_key calls made on one builder
MaxFilterCalls == 4

FilterKeys == {<<1>>, <<2>>, <<3>>}

FilterBlockOffsets == {0, 100, 2048, 5000}

\* utils::hash::basic_hash(key, 1): some function of the key; two of the
\* keys collide
basic_hash(key) == 1000 + (key[1] % 2)

\* TestHashFilter::create_filter
RECURSIVE TestHashFilter_create_filter(_, _)
TestHashFilter_create_filter(keys, i) ==
    IF i > Len(keys) THEN <<>>
    ELSE put_u32_le(basic_hash(keys[i])) \o TestHashFilter_create_filter(keys, i + 1)

\* TestHashFilter::may_contain
RECURSIVE TestHashFilter_may_contain(_, _)
TestHashFilter_may_contain(filter, key) ==
    IF Len(filter) >= 4
    THEN IF basic_hash(key) = get_u32_le(filter, 0) THEN TRUE
         ELSE TestHashFilter_may_contain(SubSeq(filter, 5, Len(filter)), key)
    ELSE FALSE

\* `>>` that shifts one bit more (mutant)
shr_one_more(n, k) == n \div (2 ^ (k + 1))

\* n >> k
shr(n, k) == n \div (2 ^ k)

\* FilterBlockBuilder::generate_filter on F = [keys, filter_offsets, buf]
generate_filter(F) ==
    LET F1 == [F EXCEPT !.filter_offsets = Append(@, Len(F.buf))]
    IN IF F.keys = <<>> THEN F1
       ELSE [F1 EXCEPT !.buf = @ \o TestHashFilter_create_filter(F.keys, 1),
                       !.keys = <<>>]

\* The loop of start_block
RECURSIVE start_block_loop(_, _)
start_block_loop(F, filter_index) ==
    IF filter_index > Len(F.filter_offsets)
    THEN start_block_loop(generate_filter(F), filter_index)
    ELSE F

\* FilterBlockBuilder::start_block: the builder, or a panic of the assertion
start_block(F, at_offset) ==
    LET filter_index == at_offset \div FILTER_BASE
    IN IF ~(filter_index >= Len(F.filter_offsets))
       THEN [panic |-> TRUE, builder |-> F]
       ELSE [panic |-> FALSE, builder |-> start_block_loop(F, filter_index)]

\* FilterBlockBuilder::finish
FilterBlockBuilder_finish(F) ==
    LET F1 == IF F.keys # <<>> THEN generate_filter(F) ELSE F
        filter_offset_start == Len(F1.buf)
    IN [F1 EXCEPT !.buf = @ \o put_restarts(F1.filter_offsets, 1)
                            \o put_u32_le(filter_offset_start)
                            \o <<FILTER_BASE_LG>>]

\* FilterBlockReader::new
FilterBlockReader_new(data) ==
    LET this == [data |-> data, base_lg |-> 0, filter_count |-> 0, filter_offset |-> 0]
    IN IF Len(data) < 5 THEN this
       ELSE LET start_offset == get_u32_le(data, Len(data) - 5)
            IN IF start_offset + 5 > Len(data)
               THEN [this EXCEPT !.base_lg = data[Len(data)]]
               ELSE [this EXCEPT !.base_lg = data[Len(data)],
                                 !.filter_offset = start_offset,
                                 !.filter_count = (Len(data) - 5 - start_offset) \div 4]

\* key_may_match that looks in the first filter whatever the offset (mutant)
key_may_match_first_filter(R, at_offset, key) ==
    IF 0 >= R.filter_count THEN TRUE
    ELSE LET start == get_u32_le(R.data, R.filter_offset)
             limit == get_u32_le(R.data, R.filter_offset + 4)
         IN IF start <= limit /\ limit <= R.filter_offset
            THEN TestHashFilter_may_contain(SubSeq(R.data, start + 1, limit), key)
            ELSE IF start = limit THEN FALSE
            ELSE TRUE

\* FilterBlockReader::key_may_match
key_may_match(R, at_offset, key) ==
    LET index == shr(at_offset, R.base_lg)
    IN IF index >= R.filter_count THEN TRUE
       ELSE LET start == get_u32_le(R.data, R.filter_offset + index * 4)
                limit == get_u32_le(R.data, R.filter_offset + (index + 1) * 4)
            IN IF start <= limit /\ limit <= R.filter_offset
               THEN TestHashFilter_may_contain(SubSeq(R.data, start + 1, limit), key)
               ELSE IF start = limit THEN FALSE
               ELSE TRUE

(* ------------------------------ actions ------------------------------- *)

FilterBuilder == [keys |-> fb_keys, filter_offsets |-> filter_offsets, buf |-> fb_buf]

NoMatch == [done |-> FALSE, offset |-> 0, key |-> <<>>, result |-> FALSE]

\* FilterBlockBuilder::new
FiltInit ==
    /\ fb_keys = <<>>
    /\ filter_offsets = <<>>
    /\ fb_buf = <<>>
    /\ fb_finished = FALSE
    /\ fb_panic = FALSE
    /\ fb_offset = -1
    /\ fb_added = {}
    /\ fb_calls = 0
    /\ fb_match = NoMatch

\* builder.start_block(offset), with any offset
FiltStartBlock ==
    /\ ~fb_finished /\ ~fb_panic
    /\ fb_calls < MaxFilterCalls
    /\ \E at_offset \in FilterBlockOffsets :
         LET r == start_block(FilterBuilder, at_offset)
         IN /\ fb_panic' = r.panic
            /\ fb_keys' = r.builder.keys
            /\ filter_offsets' = r.builder.filter_offsets
            /\ fb_buf' = r.builder.buf
            /\ fb_offset' = IF r.panic THEN fb_offset ELSE at_offset
    /\ fb_calls' = fb_calls + 1
    /\ UNCHANGED <<fb_finished, fb_added, fb_match>>
    /\ FiltFrame

\* builder.add_key(key); a key added before the first start_block is a key of
\* the first range, as one added after start_block(0)
FiltAddKey ==
    /\ ~fb_finished /\ ~fb_panic
    /\ fb_calls < MaxFilterCalls
    /\ \E key \in FilterKeys :
         /\ fb_keys' = Append(fb_keys, key)
         /\ fb_added' = fb_added \cup {<<IF fb_offset >= 0 THEN fb_offset ELSE 0, key>>}
    /\ fb_calls' = fb_calls + 1
    /\ UNCHANGED <<filter_offsets, fb_buf, fb_finished, fb_panic, fb_offset, fb_match>>
    /\ FiltFrame

\* builder.finish()
FiltFinish ==
    /\ ~fb_finished /\ ~fb_panic
    /\ LET F == FilterBlockBuilder_finish(FilterBuilder)
       IN /\ fb_keys' = F.keys
          /\ filter_offsets' = F.filter_offsets
          /\ fb_buf' = F.buf
    /\ fb_finished' = TRUE
    /\ UNCHANGED <<fb_panic, fb_offset, fb_added, fb_calls, fb_match>>
    /\ FiltFrame

\* FilterBlockReader::new(policy, block).key_may_match(offset, key)
FiltKeyMayMatch ==
    /\ fb_finished
    /\ \E at_offset \in FilterBlockOffsets : \E key \in FilterKeys :
         fb_match' = [done |-> TRUE, offset |-> at_offset, key |-> key,
                      result |-> key_may_match(FilterBlockReader_new(fb_buf),
                                               at_offset, key)]
    /\ UNCHANGED <<fb_keys, filter_offsets, fb_buf, fb_finished, fb_panic, fb_offset,
                   fb_added, fb_calls>>
    /\ FiltFrame

FiltNext == FiltStartBlock \/ FiltAddKey \/ FiltFinish \/ FiltKeyMayMatch

(***************************************************************************)
(*                    OPTIMISTIC READ VALIDATION                           *)
(*                                                                         *)
(* Writers take, mark and drop write guards on one node while readers take *)
(* read guards, validate them and upgrade them to write guards.  Every     *)
(* atomic access is one step.                                              *)
(***************************************************************************)

\* Writer threads, reader threads, and the write guards acquired in a run
OlcWriters == 2
OlcReaders == 1
OlcRounds == 2

\* reader r: whether it holds a read guard, the guard's version, whether a
\* write guard was acquired or the node marked obsolete since its read(), the
\* outcome of its last call, and what held at that call: for read(), that a
\* write guard was held or the node obsolete; for a check or an upgrade,
\* dirty.  pc and wsnap follow an upgrade(): the version IntenalNode::write
\* loaded ("cas"), then the write guard ("held").
ReaderFresh ==
    [has |-> FALSE, snap |-> 0, dirty |-> FALSE, last |-> "none", flag |-> FALSE,
     pc |-> "none", wsnap |-> 0]

OlcInit ==
    /\ olc_version = 0
    /\ olc_w = [t \in 1..OlcWriters |-> [pc |-> "idle", snap |-> 0]]
    /\ olc_r = [r \in 1..OlcReaders |-> ReaderFresh]
    /\ olc_obsolete = FALSE
    /\ olc_acquired = 0

\* Some thread holds a write guard
GuardHeld ==
    \/ \E t \in 1..OlcWriters : olc_w[t].pc = "held"
    \/ \E r \in 1..OlcReaders : olc_r[r].pc = "held"

\* Every read guard in existence learns of a write
Dirtied == [r \in 1..OlcReaders |->
               IF olc_r[r].has THEN [olc_r[r] EXCEPT !.dirty = TRUE] ELSE olc_r[r]]

\* A mark_obsolte that also takes the lock bit away
mark_obsolte_unlocks(v) == (v \div 4) * 4 + 1

\* WriteGuard::mark_obsolte: version.fetch_or(0b01)
mark_obsolte(v) == IF v % 2 = 0 THEN v + 1 ELSE v

\* A drop that clears the two low bits
WriteGuard_drop_clears(v) == (v \div 4) * 4 + 4

\* Drop for WriteGuard: version.fetch_add(0b10)
WriteGuard_drop(v) == v + 2

\* IntenalNode::write, first half: check_version loads the version
OlcWriteLoad(t) ==
    /\ olc_w[t].pc = "idle"
    /\ olc_acquired < OlcRounds
    /\ olc_w' = [olc_w EXCEPT ![t] =
                    IF check_version(olc_version) = "Ok"
                    THEN [pc |-> "cas", snap |-> olc_version]
                    ELSE [pc |-> "idle", snap |-> 0]]
    /\ UNCHANGED <<olc_version, olc_r, olc_obsolete, olc_acquired>>
    /\ OlcFrame

\* IntenalNode::write, second half: compare_exchange(version, mark_lock(version))
OlcWriteCas(t) ==
    /\ olc_w[t].pc = "cas"
    /\ IF olc_version = olc_w[t].snap
       THEN /\ olc_version' = mark_lock(olc_w[t].snap)
            /\ olc_w' = [olc_w EXCEPT ![t] = [pc |-> "held", snap |-> 0]]
            /\ olc_r' = Dirtied
            /\ olc_acquired' = olc_acquired + 1
       ELSE /\ olc_w' = [olc_w EXCEPT ![t] = [pc |-> "idle", snap |-> 0]]
            /\ UNCHANGED <<olc_version, olc_r, olc_acquired>>
    /\ UNCHANGED olc_obsolete
    /\ OlcFrame

\* WriteGuard::mark_obsolte: fetch_or(0b01)
OlcMarkObsolete(t) ==
    /\ olc_w[t].pc = "held"
    /\ ~olc_obsolete
    /\ olc_version' = mark_obsolte(olc_version)
    /\ olc_obsolete' = TRUE
    /\ olc_r' = Dirtied
    /\ UNCHANGED <<olc_w, olc_acquired>>
    /\ OlcFrame

\* Drop for WriteGuard: fetch_add(0b10)
OlcDrop(t) ==
    /\ olc_w[t].pc = "held"
    /\ olc_version' = WriteGuard_drop(olc_version)
    /\ olc_w' = [olc_w EXCEPT ![t] = [pc |-> "idle", snap |-> 0]]
    /\ UNCHANGED <<olc_r, olc_obsolete, olc_acquired>>
    /\ OlcFrame

\* IntenalNode::read: check_version, and a guard that remembers the version
OlcRead(r) ==
    /\ ~olc_r[r].has
    /\ olc_r[r].pc = "none"
    /\ olc_r' = [olc_r EXCEPT ![r] =
                    IF check_version(olc_version) = "Ok"
                    THEN [ReaderFresh EXCEPT !.has = TRUE, !.snap = olc_version,
                             !.last = "read_ok", !.flag = GuardHeld \/ olc_obsolete]
                    ELSE [ReaderFresh EXCEPT
                             !.last = "read_err", !.flag = GuardHeld \/ olc_obsolete]]
    /\ UNCHANGED <<olc_version, olc_w, olc_obsolete, olc_acquired>>
    /\ OlcFrame

\* ReadGuard::check_version (keep = TRUE) and ReadGuard::unlock, which
\* consumes the guard: Ok when check_version succeeds with the guard's version
OlcReadCheck(r) ==
    /\ olc_r[r].has
    /\ olc_r[r].pc = "none"
    /\ \E keep \in BOOLEAN :
         olc_r' = [olc_r EXCEPT ![r] =
                      [ReaderFresh EXCEPT
                       !.has = keep,
                       !.snap = IF keep THEN olc_r[r].snap ELSE 0,
                       !.dirty = IF keep THEN olc_r[r].dirty ELSE FALSE,
                       !.last = IF check_version(olc_version) = "Ok"
                                   /\ olc_r[r].snap = olc_version
                                THEN "check_ok" ELSE "check_err",
                       !.flag = olc_r[r].dirty]]
    /\ UNCHANGED <<olc_version, olc_w, olc_obsolete, olc_acquired>>
    /\ OlcFrame

\* ReadGuard::upgrade -> IntenalNode::write(self.ptr), first half:
\* check_version loads the version anew; on Err the read guard comes back
\* with the error
OlcUpgradeLoad(r) ==
    /\ olc_r[r].has
    /\ olc_r[r].pc = "none"
    /\ olc_acquired < OlcRounds
    /\ olc_r' = [olc_r EXCEPT ![r] =
                    IF check_version(olc_version) = "Ok"
                    THEN [@ EXCEPT !.pc = "cas", !.wsnap = olc_version]
                    ELSE [@ EXCEPT !.last = "upgrade_err", !.flag = olc_r[r].dirty]]
    /\ UNCHANGED <<olc_version, olc_w, olc_obsolete, olc_acquired>>
    /\ OlcFrame

\* ReadGuard::upgrade -> IntenalNode::write, second half:
\* compare_exchange(version, mark_lock(version)) on the version just loaded;
\* Ok consumes the read guard and gives the write guard
OlcUpgradeCas(r) ==
    /\ olc_r[r].pc = "cas"
    /\ IF olc_version = olc_r[r].wsnap
       THEN /\ olc_version' = mark_lock(olc_r[r].wsnap)
            /\ olc_r' = [Dirtied EXCEPT ![r] =
                            [ReaderFresh EXCEPT !.pc = "held", !.snap = olc_r[r].snap,
                                !.last = "upgrade_ok", !.flag = olc_r[r].dirty]]
            /\ olc_acquired' = olc_acquired + 1
       ELSE /\ olc_r' = [olc_r EXCEPT ![r] =
                            [@ EXCEPT !.pc = "none", !.wsnap = 0,
                                !.last = "upgrade_err", !.flag = olc_r[r].dirty]]
            /\ UNCHANGED <<olc_version, olc_acquired>>
    /\ UNCHANGED <<olc_w, olc_obsolete>>
    /\ OlcFrame

\* The write guard of an upgrade: WriteGuard::mark_obsolte
OlcUpgradeMarkObsolete(r) ==
    /\ olc_r[r].pc = "held"
    /\ ~olc_obsolete
    /\ olc_version' = mark_obsolte(olc_version)
    /\ olc_obsolete' = TRUE
    /\ olc_r' = Dirtied
    /\ UNCHANGED <<olc_w, olc_acquired>>
    /\ OlcFrame

\* The write guard of an upgrade: Drop for WriteGuard
OlcUpgradeDrop(r) ==
    /\ olc_r[r].pc = "held"
    /\ olc_version' = WriteGuard_drop(olc_version)
    /\ olc_r' = [olc_r EXCEPT ![r] = [@ EXCEPT !.pc = "none", !.snap = 0]]
    /\ UNCHANGED <<olc_w, olc_obsolete, olc_acquired>>
    /\ OlcFrame

OlcNext ==
    \/ \E t \in 1..OlcWriters :
         OlcWriteLoad(t) \/ OlcWriteCas(t) \/ OlcMarkObsolete(t) \/ OlcDrop(t)
    \/ \E r \in 1..OlcReaders :
         \/ OlcRead(r)
         \/ OlcReadCheck(r)
         \/ OlcUpgradeLoad(r)
         \/ OlcUpgradeCas(r)
         \/ OlcUpgradeMarkObsolete(r)
         \/ OlcUpgradeDrop(r)

(***************************************************************************)
(*                             VARINT CODEC                                *)
(*                                                                         *)
(* A u64 is a sequence of 64 bits, least significant first, so that shifts *)
(* and checked additions are computed at their width.                      *)
(***************************************************************************)

Zero64 == [i \in 1..64 |-> 0]

\* 2^k, and 2^k - 1
Pow2_64(k) == [i \in 1..64 |-> IF i = k + 1 THEN 1 ELSE 0]
Ones64(k) == [i \in 1..64 |-> IF i <= k THEN 1 ELSE 0]

\* The values encoded: both sides of every power of two, 0 and u64::MAX
VarintValues == {Pow2_64(k) : k \in 0..63} \cup {Ones64(k) : k \in 0..64}

\* (value & mask) as u8 for a mask of the n low bits, n <= 8
RECURSIVE low_bits(_, _)
low_bits(v, n) == IF n = 0 THEN 0 ELSE v[1] + 2 * low_bits(Tail(v), n - 1)

\* b as u64
from_u8(b) == [i \in 1..64 |-> IF i <= 8 THEN (b \div (2 ^ (i - 1))) % 2 ELSE 0]

\* A right shift that moves one bit too few (mutant)
shr_bits_short(v, n) == [i \in 1..64 |-> IF i + n - 1 <= 64 THEN v[i + n - 1] ELSE 0]

\* value >> n
shr_bits(v, n) == [i \in 1..64 |-> IF i + n <= 64 THEN v[i + n] ELSE 0]

\* None of a checked operation
NoneU64 == <<>>

\* u64::checked_shl: None when the shift is the width or more; bits shifted
\* out are dropped
checked_shl(v, s) ==
    IF s >= 64 THEN NoneU64
    ELSE [i \in 1..64 |-> IF i - s >= 1 THEN v[i - s] ELSE 0]

\* The carry into bit i of a + b
RECURSIVE carry_into(_, _, _)
carry_into(a, b, i) ==
    IF i = 1 THEN 0 ELSE (a[i - 1] + b[i - 1] + carry_into(a, b, i - 1)) \div 2

\* u64::checked_add: None on a carry out of bit 64
checked_add(a, b) ==
    IF carry_into(a, b, 65) = 1 THEN NoneU64
    ELSE [i \in 1..64 |-> (a[i] + b[i] + carry_into(a, b, i)) % 2]

\* bytes[j] |= 0b1000_0000
or_continue(b) == IF b >= 128 THEN b ELSE b + 128

\* the while loop of From<u64>: 7 bits a byte until the value is 0
RECURSIVE from_loop(_, _)
from_loop(v, bytes) ==
    IF v = Zero64 THEN bytes
    ELSE from_loop(shr_bits(v, 7), Append(bytes, low_bits(v, 7)))

\* impl From<u64> for VarUInt
VarUInt_from(v) ==
    IF shr_bits(v, 7) = Zero64 THEN <<low_bits(v, 8)>>
    ELSE LET bytes == from_loop(v, <<>>)
             i == Len(bytes)
         IN [j \in 1..i |-> IF j <= i - 1 THEN or_continue(bytes[j]) ELSE bytes[j]]

\* the for loop of try_to_u64
RECURSIVE try_loop(_, _, _, _)
try_loop(bytes, pos, result, sft) ==
    IF pos > Len(bytes) THEN [ok |-> TRUE, value |-> result]
    ELSE LET byte == checked_shl(from_u8(bytes[pos] % 128), sft)
         IN IF byte = NoneU64 THEN [ok |-> FALSE, value |-> Zero64]
            ELSE LET sum == checked_add(result, byte)
                 IN IF sum = NoneU64 THEN [ok |-> FALSE, value |-> Zero64]
                    ELSE try_loop(bytes, pos + 1, sum, sft + 7)

\* VarUInt::try_to_u64
try_to_u64(bytes) == try_loop(bytes, 1, Zero64, 0)

NoVintDec == [done |-> FALSE, ok |-> FALSE, value |-> Zero64]

VintInit ==
    /\ vi_value \in VarintValues
    /\ vi_bytes = <<>>
    /\ vi_dec = NoVintDec

\* VarUInt::from(value)
VintEncode ==
    /\ vi_bytes = <<>>
    /\ vi_bytes' = VarUInt_from(vi_value)
    /\ UNCHANGED <<vi_value, vi_dec>>
    /\ VintFrame

\* varint.try_to_u64()
VintDecode ==
    /\ vi_bytes # <<>>
    /\ ~vi_dec.done
    /\ vi_dec' = [done |-> TRUE] @@ try_to_u64(vi_bytes)
    /\ UNCHANGED <<vi_value, vi_bytes>>
    /\ VintFrame

VintNext == VintEncode \/ VintDecode

(***************************************************************************)
(*                            SSTABLE FOOTER                               *)
(***************************************************************************)

\* The u64 of 8 little-endian bytes
u64_from_le(bytes) ==
    [i \in 1..64 |-> (bytes[((i - 1) \div 8) + 1] \div (2 ^ ((i - 1) % 8))) % 2]

\* 1145141919810 = 0x0000_010A_9FC7_0042
MAGIT_NUMBER == u64_from_le(<<66, 0, 199, 159, 10, 1, 0, 0>>)

\* buf.put_u64_le(v)
put_u64_le(v) ==
    [j \in 1..8 |-> low_bits(shr_bits(v, 8 * (j - 1)), 8)]

\* VarInt::put_varint of a u64: LEB128, as VarUInt encodes it
put_varint64(v) == VarUInt_from(v)

\* BlockHandle::encode_to
encode_to(h) == put_varint64(h.offset) \o put_varint64(h.size)

\* Footer::encode: the two handles, the magic, and the length assertion
Footer_encode(meta, index) ==
    LET buf == encode_to(meta) \o encode_to(index) \o put_u64_le(MAGIT_NUMBER)
    IN [done |-> TRUE, panic |-> Len(buf) # 48, buf |-> buf]

\* The offsets and sizes of the handles: 1, 2, 5 and 10 bytes as varints
HandleValues == {Zero64, Ones64(7), Pow2_64(7), Pow2_64(32), Pow2_64(63), Ones64(64)}

BlockHandle_new(offset, size) == [offset |-> offset, size |-> size]

NoFooter == [done |-> FALSE, panic |-> FALSE, buf |-> <<>>]

FootInit ==
    /\ \E o \in HandleValues, s \in HandleValues : meta_index_handle = BlockHandle_new(o, s)
    /\ \E o \in HandleValues, s \in HandleValues : index_handle = BlockHandle_new(o, s)
    /\ ft_out = NoFooter

\* Footer::new(meta_index_handle, index_handle).encode()
FootEncode ==
    /\ ~ft_out.done
    /\ ft_out' = Footer_encode(meta_index_handle, index_handle)
    /\ UNCHANGED <<meta_index_handle, index_handle>>
    /\ FootFrame

FootNext == FootEncode

(***************************************************************************)
(*                    BYTEWISE COMPARATOR: SEPARATORS                      *)
(***************************************************************************)

\* The longest key of the model
MaxSepLen == 2

\* The bytes of the keys: adjacent bytes, bytes one apart, and 0xff
SepBytes == {0, 1, 2, 255}

\* The byte strings of length n, and of length at most n
RECURSIVE SepStrings(_)
SepStrings(n) ==
    IF n = 0 THEN {<<>>}
    ELSE SepStrings(n - 1) \cup
         {Append(s, b) : s \in {t \in SepStrings(n - 1) : Len(t) = n - 1}, b \in SepBytes}

\* the while loop: the first index (from 0) at which the keys differ
RECURSIVE diff_loop(_, _, _, _)
diff_loop(start, limit, min_len, diff_index) ==
    IF diff_index < min_len /\ start[diff_index + 1] = limit[diff_index + 1]
    THEN diff_loop(start, limit, min_len, diff_index + 1)
    ELSE diff_index

\* A find_shortest_separator that admits the limit's own byte (mutant)
find_shortest_separator_upto(start, limit) ==
    LET min_len == Min(Len(start), Len(limit))
        diff_index == diff_loop(start, limit, min_len, 0)
    IN IF diff_index >= min_len THEN start
       ELSE LET diff == start[diff_index + 1]
            IN IF diff # 255 /\ diff + 1 <= limit[diff_index + 1]
               THEN [SubSeq(start, 1, diff_index + 1) EXCEPT ![diff_index + 1] = @ + 1]
               ELSE start

\* BytewiseComparator::find_shortest_separator
find_shortest_separator(start, limit) ==
    LET min_len == Min(Len(start), Len(limit))
        diff_index == diff_loop(start, limit, min_len, 0)
    IN IF diff_index >= min_len THEN start
       ELSE LET diff == start[diff_index + 1]
            IN IF diff # 255 /\ diff + 1 < limit[diff_index + 1]
               THEN [SubSeq(start, 1, diff_index + 1) EXCEPT ![diff_index + 1] = @ + 1]
               ELSE start

NoSep == [done |-> FALSE, res |-> <<>>]

\* TableBuilder::add calls it with last_key and a key that is not below it
SepInit ==
    /\ sep_start \in SepStrings(MaxSepLen)
    /\ sep_limit \in SepStrings(MaxSepLen)
    /\ compare(sep_start, sep_limit) < 0
    /\ sep_out = NoSep

\* comparator.find_shortest_separator(&last_key, key)
SepFind ==
    /\ ~sep_out.done
    /\ sep_out' = [done |-> TRUE, res |-> find_shortest_separator(sep_start, sep_limit)]
    /\ UNCHANGED <<sep_start, sep_limit>>
    /\ SepFrame

SepNext == SepFind

(***************************************************************************)
(*                               MEMTABLE                                  *)
(*                                                                         *)
(* An entry is its bytes.  The ordered set is crossbeam's SkipSet: a        *)
(* sequence kept in the order of Ord for MemKeyEntry, in which an insert   *)
(* replaces an element that compares equal.  ValuePointer's encoding is    *)
(* not among the sources and is modelled from the specification.           *)
(***************************************************************************)

HEADER == 13

\* Bounds: the inserts of a run and the greatest sequence number
MaxMemInserts == 3
MaxMemSeq == 1

MemKeys == {<<97>>, <<98>>, <<97, 97>>}

\* ValueType::Delete and ValueType::Value as u8
Delete == 0
Value == 1

\* buf.put_u64(n), big-endian, for n below 2^31
PutU64(n) == PutU32(0) \o PutU32(n)

\* (&bytes[at..]).get_u64() as the pair of its high and low 32 bits
GetU64(bytes, at) == <<GetU32(bytes, at), GetU32(bytes, at + 4)>>

\* Ord::cmp of integers and of pairs of integers: -1, 0, 1
cmp_int(a, b) == IF a < b THEN -1 ELSE IF a > b THEN 1 ELSE 0
cmp_u64(a, b) == IF a[1] # b[1] THEN cmp_int(a[1], b[1]) ELSE cmp_int(a[2], b[2])

NoPtr == [some |-> FALSE, file_id |-> 0, len |-> 0, offset |-> 0]
SomePtr(file_id, len, offset) ==
    [some |-> TRUE, file_id |-> file_id, len |-> len, offset |-> offset]

\* ValuePointer::encode: the fixed 20 bytes {file_id: u32, offset: u64, len: u64}
ValuePointer_encode(ptr) == PutU32(ptr.file_id) \o PutU64(ptr.offset) \o PutU64(ptr.len)

\* ValuePointer::decode: None unless the bytes are a pointer's 20
ValuePointer_decode(buf) ==
    IF Len(buf) # 20 \/ GetU32(buf, 4) # 0 \/ GetU32(buf, 12) # 0 THEN NoPtr
    ELSE SomePtr(GetU32(buf, 0), GetU32(buf, 16), GetU32(buf, 8))

\* ParsedMemKeyEntry::new(key, seq, value_type, value_ptr).encode()
ParsedMemKeyEntry_encode(user_key, seq, value_type, value_ptr) ==
    PutU32(Len(user_key)) \o <<value_type>> \o PutU64(seq) \o user_key
        \o (IF value_ptr.some THEN ValuePointer_encode(value_ptr) ELSE <<>>)

key_len(e) == GetU32(e, 0)
value_type(e) == e[5]
seq_of(e) == GetU64(e, 5)
key_of(e) == SubSeq(e, HEADER + 1, HEADER + key_len(e))

\* MemKeyEntry::value_ptr: None (<<>>) when no bytes follow the key
value_ptr(e) ==
    LET value_len == Len(e) - HEADER - key_len(e)
    IN IF value_len = 0 THEN <<>> ELSE SubSeq(e, HEADER + key_len(e) + 1, Len(e))

\* A compare_inner that does not look at the sequence number (mutant)
compare_inner_no_seq(a, b) ==
    IF key_len(a) # key_len(b) THEN cmp_int(key_len(a), key_len(b))
    ELSE IF value_type(a) # value_type(b) THEN cmp_int(value_type(a), value_type(b))
    ELSE compare(key_of(a), key_of(b))

\* MemKeyEntry::compare_inner, which is Ord, PartialOrd and PartialEq
compare_inner(a, b) ==
    IF key_len(a) # key_len(b) THEN cmp_int(key_len(a), key_len(b))
    ELSE IF value_type(a) # value_type(b) THEN cmp_int(value_type(a), value_type(b))
    ELSE IF cmp_u64(seq_of(a), seq_of(b)) # 0 THEN cmp_u64(seq_of(a), seq_of(b))
    ELSE compare(key_of(a), key_of(b))

\* SkipSet::insert: an element that compares equal is removed, the new one
\* takes its place in the order
SkipSet_insert(skl, e) ==
    LET below == SelectSeq(skl, LAMBDA x : compare_inner(x, e) < 0)
        above == SelectSeq(skl, LAMBDA x : compare_inner(x, e) > 0)
    IN below \o <<e>> \o above

\* SkipSet::get: the element that compares equal, <<>> when there is none
SkipSet_get(skl, e) ==
    LET eq == SelectSeq(skl, LAMBDA x : compare_inner(x, e) = 0)
    IN IF eq = <<>> THEN <<>> ELSE eq[1]

\* MemTableInner::insert
MemTableInner_insert(T, e) ==
    [skl |-> SkipSet_insert(T.skl, e), mem_usage |-> T.mem_usage + Len(e)]

\* MemTable::insert
MemTable_insert(T, user_key, seq, vt, ptr) ==
    MemTableInner_insert(T, ParsedMemKeyEntry_encode(user_key, seq, vt, ptr))

\* MemTable::get
MemTable_get(T, user_key, seq) ==
    LET lookup == ParsedMemKeyEntry_encode(user_key, seq, Value, NoPtr)
        e == SkipSet_get(T.skl, lookup)
    IN IF e = <<>> THEN NoPtr
       ELSE IF value_ptr(e) = <<>> THEN NoPtr
       ELSE ValuePointer_decode(value_ptr(e))

MemTable == [skl |-> mt_skl, mem_usage |-> mt_usage]

NoGet == [done |-> FALSE, key |-> <<>>, seq |-> 0, res |-> NoPtr]

\* MemTable::new
MemInit ==
    /\ mt_skl = <<>>
    /\ mt_usage = 0
    /\ mt_calls = <<>>
    /\ mt_get = NoGet

\* mem.insert(key, seq, ValueType::Value, Some(ptr)): the i-th call passes the
\* pointer {i, i, i} as tests::gen_data does; a sequence number is not used
\* twice for a key
MemInsert ==
    /\ Len(mt_calls) < MaxMemInserts
    /\ \E user_key \in MemKeys, seq \in 0..MaxMemSeq :
         /\ \A i \in 1..Len(mt_calls) :
                ~(mt_calls[i].key = user_key /\ mt_calls[i].seq = seq)
         /\ LET i == Len(mt_calls) + 1
                ptr == SomePtr(i, i, i)
                T == MemTable_insert(MemTable, user_key, seq, Value, ptr)
            IN /\ mt_skl' = T.skl
               /\ mt_usage' = T.mem_usage
               /\ mt_calls' = Append(mt_calls, [key |-> user_key, seq |-> seq, ptr |-> ptr])
    /\ mt_get' = NoGet
    /\ MemFrame

\* mem.get(key, seq)
MemGet ==
    /\ \E user_key \in MemKeys, seq \in 0..(MaxMemSeq + 1) :
         mt_get' = [done |-> TRUE, key |-> user_key, seq |-> seq,
                    res |-> MemTable_get(MemTable, user_key, seq)]
    /\ UNCHANGED <<mt_skl, mt_usage, mt_calls>>
    /\ MemFrame

MemNext == MemInsert \/ MemGet

(***************************************************************************)
(*                        VALUE-LOG ENTRY CODEC                            *)
(*                                                                         *)
(* An entry is encoded, the bytes are left alone, cut short or changed in  *)
(* one byte, and decoded.                                                  *)
(***************************************************************************)

\* The entries: empty and non-empty keys and values, every ValueType
EntEntries ==
    [key : {<<>>, <<1>>, <<3, 1>>}, value : {<<>>, <<2>>, <<2, 7>>}, meta : 0..4]

\* The values a damaged byte takes; a length field stays below 2^31
DamageBytes == {0, 1, 5, 127}

NoDec == [done |-> FALSE] @@ DecodeErr

EntInit ==
    /\ en_entry \in EntEntries
    /\ en_buf = <<>>
    /\ en_damage = "new"
    /\ en_dec = NoDec

\* VLogEntry::new(key, value, meta).encode()
EntEncode ==
    /\ en_damage = "new"
    /\ en_buf' = encode(en_entry)
    /\ en_damage' = "none"
    /\ UNCHANGED <<en_entry, en_dec>>
    /\ EntFrame

\* Only the first n bytes of the encoding reach decode
EntTruncate ==
    /\ en_damage = "none" /\ ~en_dec.done
    /\ \E n \in 0..(Len(en_buf) - 1) : en_buf' = SubSeq(en_buf, 1, n)
    /\ en_damage' = "short"
    /\ UNCHANGED <<en_entry, en_dec>>
    /\ EntFrame

\* One byte of the encoding is changed
EntSetByte ==
    /\ en_damage = "none" /\ ~en_dec.done
    /\ \E i \in 1..Len(en_buf), b \in DamageBytes :
         /\ en_buf[i] # b
         /\ en_buf' = [en_buf EXCEPT ![i] = b]
    /\ en_damage' = "byte"
    /\ UNCHANGED <<en_entry, en_dec>>
    /\ EntFrame

\* VLogEntry::decode(buf)
EntDecode ==
    /\ en_damage # "new" /\ ~en_dec.done
    /\ en_dec' = [done |-> TRUE] @@ decode(en_buf)
    /\ UNCHANGED <<en_entry, en_buf, en_damage>>
    /\ EntFrame

EntNext == EntEncode \/ EntTruncate \/ EntSetByte \/ EntDecode

(***************************************************************************)
(*                 VALUE LOG UNDER CONCURRENT CALLERS                      *)
(*                                                                         *)
(* Tasks call write_entry and read_entry on one ValueLogSet.  A step is    *)
(* what a task does between two awaits: taking the lock, the append to the *)
(* current file, next_write_file, the read, and the drop of the guard at   *)
(* the end of the statement.                                               *)
(***************************************************************************)

\* Writing tasks, reading tasks, and the write_entry calls of a run
VconWriters == 2
VconReaders == 1
MaxVconWrites == 3

\* A write() that does not wait for the guards of others (mutant)
rwlock_can_write_any(lock) == TRUE

\* RwLock::write() is granted: no guard of either kind is out
rwlock_can_write(lock) == lock.writer = 0 /\ lock.readers = {}

\* RwLock::read() is granted: no write guard is out
rwlock_can_read(lock) == lock.writer = 0

VconWriterIdle == [pc |-> "idle", entry |-> [key |-> <<>>, value |-> <<>>, meta |-> 0],
                   ptr |-> [file_id |-> 0, len |-> 0, offset |-> 0]]
VconReaderIdle == [pc |-> "idle", ptr |-> [file_id |-> 0, len |-> 0, offset |-> 0],
                   done |-> FALSE, mid |-> FALSE, res |-> DecodeErr]

\* ValueLogSet::new on an empty directory
VconInit ==
    /\ \E mfs \in {1, 40} :
         LET st == LogFiles_new(<<>>, mfs)
         IN /\ vc_mfs = mfs
            /\ vc_files = [dir |-> st.dir, max_fid |-> st.max_fid,
                           current_file |-> st.current_file,
                           active_files |-> st.active_files]
    /\ vc_lock = [writer |-> 0, readers |-> {}]
    /\ vc_w = [t \in 1..VconWriters |-> VconWriterIdle]
    /\ vc_r = [r \in 1..VconReaders |-> VconReaderIdle]
    /\ vc_ptrs = <<>>

\* write_entry: entry.encode(), then self.files.write().await
VconWriteLock(t) ==
    /\ vc_w[t].pc = "idle"
    /\ Len(vc_ptrs) + Cardinality({u \in 1..VconWriters : vc_w[u].pc # "idle"}) < MaxVconWrites
    /\ rwlock_can_write(vc_lock)
    /\ \E e \in VlogEntries :
         vc_w' = [vc_w EXCEPT ![t] = [@ EXCEPT !.pc = "locked", !.entry = e]]
    /\ vc_lock' = [vc_lock EXCEPT !.writer = t]
    /\ UNCHANGED <<vc_files, vc_mfs, vc_r, vc_ptrs>>
    /\ VconFrame

\* LogFiles::write: self.current_file.write(buf).await
VconAppend(t) ==
    /\ vc_w[t].pc = "locked"
    /\ LET w == WriteLogFile_write(vc_files.dir, vc_files.current_file, encode(vc_w[t].entry))
       IN /\ vc_files' = [vc_files EXCEPT !.dir = w.dir, !.current_file = w.file]
          /\ vc_w' = [vc_w EXCEPT ![t] = [@ EXCEPT !.pc = "appended", !.ptr = w.ptr]]
    /\ UNCHANGED <<vc_mfs, vc_lock, vc_r, vc_ptrs>>
    /\ VconFrame

\* LogFiles::write: self.next_write_file().await
VconRotate(t) ==
    /\ vc_w[t].pc = "appended"
    /\ LET st == next_write_file(vc_files, vc_mfs)
       IN vc_files' = [dir |-> st.dir, max_fid |-> st.max_fid,
                       current_file |-> st.current_file,
                       active_files |-> st.active_files]
    /\ vc_w' = [vc_w EXCEPT ![t].pc = "rotated"]
    /\ UNCHANGED <<vc_mfs, vc_lock, vc_r, vc_ptrs>>
    /\ VconFrame

\* write_inner returns Ok(ptr): the write guard is dropped
VconWriteUnlock(t) ==
    /\ vc_w[t].pc = "rotated"
    /\ vc_lock' = [vc_lock EXCEPT !.writer = IF @ = t THEN 0 ELSE @]
    /\ vc_ptrs' = Append(vc_ptrs, [entry |-> vc_w[t].entry, ptr |-> vc_w[t].ptr])
    /\ vc_w' = [vc_w EXCEPT ![t] = VconWriterIdle]
    /\ UNCHANGED <<vc_files, vc_mfs, vc_r>>
    /\ VconFrame

\* read_entry(ptr) of a pointer some write_entry returned: self.files.read().await
VconReadLock(r) ==
    /\ vc_r[r].pc = "idle"
    /\ rwlock_can_read(vc_lock)
    /\ \E i \in 1..Len(vc_ptrs) :
         vc_r' = [vc_r EXCEPT ![r] = [VconReaderIdle EXCEPT !.pc = "locked", !.ptr = vc_ptrs[i].ptr]]
    /\ vc_lock' = [vc_lock EXCEPT !.readers = @ \cup {r}]
    /\ UNCHANGED <<vc_files, vc_mfs, vc_w, vc_ptrs>>
    /\ VconFrame

\* LogFiles::read(ptr).await and VLogEntry::decode; the read guard is dropped.
\* mid: a write_entry was between taking the lock and returning.
VconRead(r) ==
    /\ vc_r[r].pc = "locked"
    /\ LET res == read_entry(vc_files.dir, vc_files.current_file, vc_files.active_files,
                             vc_r[r].ptr).res
       IN vc_r' = [vc_r EXCEPT ![r] =
                     [@ EXCEPT !.pc = "idle", !.done = TRUE, !.res = res,
                               !.mid = \E t \in 1..VconWriters : vc_w[t].pc # "idle"]]
    /\ vc_lock' = [vc_lock EXCEPT !.readers = @ \ {r}]
    /\ UNCHANGED <<vc_files, vc_mfs, vc_w, vc_ptrs>>
    /\ VconFrame

VconNext ==
    \/ \E t \in 1..VconWriters :
         VconWriteLock(t) \/ VconAppend(t) \/ VconRotate(t) \/ VconWriteUnlock(t)
    \/ \E r \in 1..VconReaders : VconReadLock(r) \/ VconRead(r)

(***************************************************************************)
(*                     BATCHED VALUE LOG (VLogSet)                         *)
(*                                                                         *)
(* current_file is the id of the segment the open file handle belongs to.  *)
(* The handle is opened in append mode and wirten_offset is the segment's  *)
(* length, so write_at(.., wirten_offset) writes at the segment's end.     *)
(***************************************************************************)

\* The append calls of a run and the entries of a batch
MaxVsetAppends == 2
MaxVsetBatch == 2

VsetEntries ==
    { [key |-> <<1>>, value |-> <<>>, meta |-> 0],
      [key |-> <<3, 1>>, value |-> <<2>>, meta |-> 1] }

\* The batches: 1 to n entries
RECURSIVE VsetBatches(_)
VsetBatches(n) ==
    IF n = 0 THEN {<<>>}
    ELSE VsetBatches(n - 1) \cup
         {Append(b, e) : b \in {c \in VsetBatches(n - 1) : Len(c) = n - 1}, e \in VsetEntries}

\* VLogSet::new on the directory dir
VLogSet_new(dir, mfs) ==
    IF DOMAIN dir # {}
    THEN LET last == SetMax(DOMAIN dir)
         IN [dir |-> dir,
             set |-> [vlog_files |-> DOMAIN dir, max_fid |-> last + 1,
                      wirten_offset |-> Len(dir[last]), max_file_size |-> mfs,
                      current_file |-> last, buf |-> <<>>]]
    ELSE [dir |-> (0 :> <<>>),
          set |-> [vlog_files |-> {0}, max_fid |-> 1, wirten_offset |-> 0,
                   max_file_size |-> mfs, current_file |-> 0, buf |-> <<>>]]

\* VLogSet::write_buf_to_file on st = [dir, set]
write_buf_to_file(st) ==
    IF st.set.buf = <<>> THEN st
    ELSE LET S == st.set
             res == Len(S.buf)
             dir1 == [st.dir EXCEPT ![S.current_file] = SubSeq(@, 1, S.wirten_offset) \o S.buf]
             off == S.wirten_offset + res
         IN IF off >= S.max_file_size
            THEN [dir |-> IF S.max_fid \in DOMAIN dir1 THEN dir1 ELSE dir1 @@ (S.max_fid :> <<>>),
                  set |-> [S EXCEPT !.buf = <<>>,
                                    !.vlog_files = @ \cup {S.max_fid},
                                    !.current_file = S.max_fid,
                                    !.max_fid = @ + 1,
                                    !.wirten_offset = 0]]
            ELSE [dir |-> dir1, set |-> [S EXCEPT !.buf = <<>>, !.wirten_offset = off]]

\* the for loop of append over entries[i..]
RECURSIVE append_loop(_, _, _, _)
append_loop(st, entries, i, pointers) ==
    IF i > Len(entries) THEN [st |-> st, pointers |-> pointers]
    ELSE LET e == encode(entries[i])
             len == Len(e)
             buf1 == st.set.buf \o e
             ptr == [file_id |-> st.set.max_fid, len |-> len,
                     offset |-> st.set.wirten_offset + Len(buf1)]
             st1 == [st EXCEPT !.set.buf = buf1]
             st2 == IF Len(buf1) + st.set.wirten_offset >= st.set.max_file_size
                    THEN write_buf_to_file(st1) ELSE st1
         IN append_loop(st2, entries, i + 1, Append(pointers, ptr))

\* VLogSet::append
VLogSet_append(st, entries) ==
    LET r == append_loop([st EXCEPT !.set.buf = <<>>], entries, 1, <<>>)
    IN [st |-> write_buf_to_file(r.st), pointers |-> r.pointers]

\* VLogSet::new on an empty directory or on one that holds segment 0
VsetInit ==
    /\ \E mfs \in {1, 20, 40}, dir \in {<<>>, (0 :> <<>>), (0 :> encode([key |-> <<5>>, value |-> <<6>>, meta |-> 1]))} :
         LET st == VLogSet_new(dir, mfs)
         IN vs_dir = st.dir /\ vs_set = st.set
    /\ vs_ptrs = <<>>
    /\ vs_appends = 0

\* vlog.append(&entries)
VsetAppend ==
    /\ vs_appends < MaxVsetAppends
    /\ \E entries \in VsetBatches(MaxVsetBatch) \ {<<>>} :
         LET r == VLogSet_append([dir |-> vs_dir, set |-> vs_set], entries)
         IN /\ vs_dir' = r.st.dir
            /\ vs_set' = r.st.set
            /\ vs_ptrs' = vs_ptrs \o [i \in 1..Len(entries) |->
                                        [entry |-> entries[i], ptr |-> r.pointers[i]]]
    /\ vs_appends' = vs_appends + 1
    /\ VsetFrame

VsetNext == VsetAppend

(***************************************************************************)
(*                     TABLE BUILDER (TableBuilder)                        *)
(*                                                                         *)
(* The builder is the value `this` that TableBuilder::new builds. A block  *)
(* builder is [buf, restarts, last_key, counter] with its finished flag    *)
(* beside it. The operators work on st = [this, file, blocks, index, keys, *)
(* panic]; once an assertion has fired the state is left as it is.         *)
(***************************************************************************)

\* The add calls of a run
MaxTbAdds == 3

TbKeys == {<<1>>, <<1, 2>>, <<2>>, <<255>>, <<255, 255>>}
TbValues == {<<>>, <<7, 7>>}
TbBlockSizes == {1, 30}

\* CompressionType::None as u8
CompressionNone == 0

\* FilterPolicy::name of the bloom policy: "bloom"
BloomName == <<98, 108, 111, 111, 109>>

TbLast(q) == q[Len(q)]

\* A file offset or a length as a u64
u64_of(n) == [i \in 1..64 |-> IF i <= 31 THEN (n \div (2 ^ (i - 1))) % 2 ELSE 0]

\* BlockHandle::encode of a handle whose fields are numbers
BlockHandle_encode(h) == encode_to(BlockHandle_new(u64_of(h.offset), u64_of(h.size)))

\* BlockBuilder::new
BlockBuilder_new == [buf |-> <<>>, restarts |-> <<0>>, last_key |-> <<>>, counter |-> 0]

\* BlockBuilder::current_size_estimate
current_size_estimate(B) == Len(B.buf) + Len(B.restarts) * SIZE_U32 + SIZE_U32

\* ring.write_at(fd, buf, at) once it completed
Tb_write_at(file, buf, at) ==
    SubSeq(file, 1, at) \o buf \o SubSeq(file, at + Len(buf) + 1, Len(file))

\* write_raw_block with the handle set before append_offset moves (mutant)
write_raw_block_at_start(file, append_offset, content, compression_type) ==
    LET trailer == <<compression_type>>
                     \o put_u32_le(crc32fast_hash(content \o <<compression_type>>))
        at == append_offset + Len(content)
    IN [file |-> Tb_write_at(Tb_write_at(file, content, append_offset), trailer, at),
        append_offset |-> at + Len(trailer),
        handle |-> [offset |-> append_offset, size |-> Len(content)]]

\* write_raw_block: the file, append_offset and the handle it leaves
write_raw_block(file, append_offset, content, compression_type) ==
    LET offset1 == append_offset + Len(content)
        handle == [offset |-> offset1, size |-> Len(content)]
        trailer == <<compression_type>>
                     \o put_u32_le(crc32fast_hash(content \o <<compression_type>>))
    IN [file |-> Tb_write_at(Tb_write_at(file, content, append_offset), trailer, offset1),
        append_offset |-> offset1 + Len(trailer),
        handle |-> handle]

\* A write_raw_block call of the builder, and its record
TbWriteBlock(st, kind, content) ==
    LET w == write_raw_block(st.file, st.this.append_offset, content, CompressionNone)
    IN [st EXCEPT !.file = w.file,
                  !.this.append_offset = w.append_offset,
                  !.blocks = Append(@, [kind |-> kind, start |-> st.this.append_offset,
                                        content |-> content, handle |-> w.handle,
                                        keys |-> IF kind = "data" THEN st.keys ELSE <<>>])]

\* find_short_successor that returns the empty key (mutant)
find_short_successor_empty(k, i) == <<>>

\* BytewiseComparator::find_short_successor, the loop from index i on
RECURSIVE find_short_successor(_, _)
find_short_successor(k, i) ==
    IF i > Len(k) THEN k
    ELSE IF k[i] # 255 THEN [SubSeq(k, 1, i) EXCEPT ![i] = @ + 1]
    ELSE find_short_successor(k, i + 1)

\* self.index_block.add(key, pending_handle.encode_to(..)); pending = false
TbIndexAdd(cfg, st, sep, at) ==
    IF ~add_asserts(st.this.index_block, st.this.index_fin, cfg.block_restart_interval, sep)
    THEN [st EXCEPT !.panic = "index_block.add"]
    ELSE LET handle_encoding == BlockHandle_encode(st.this.pending_handle)
         IN [st EXCEPT !.this.index_block =
                           add(@, cfg.block_restart_interval, sep, handle_encoding),
                       !.this.pending_index_entry = FALSE,
                       !.index = Append(@, [key |-> sep, value |-> handle_encoding,
                                            at |-> at])]

\* TableBuilder::flush
TableBuilder_flush(cfg, st) ==
    IF st.panic # "none" THEN st
    ELSE IF st.this.closed THEN [st EXCEPT !.panic = "flush: closed"]
    ELSE IF st.this.data_block.buf = <<>> THEN st
    ELSE IF st.this.pending_index_entry THEN [st EXCEPT !.panic = "flush: pending"]
    ELSE IF st.this.data_fin THEN [st EXCEPT !.panic = "data_block.finish"]
    ELSE LET raw_block == finish(st.this.data_block)
             st1 == TbWriteBlock(st, "data", raw_block)
             st2 == [st1 EXCEPT !.this.pending_handle = TbLast(st1.blocks).handle,
                                !.this.data_block = BlockBuilder_new,
                                !.this.data_fin = FALSE,
                                !.this.pending_index_entry = TRUE,
                                !.keys = <<>>]
         IN IF ~st.this.has_filter THEN st2
            ELSE LET f == start_block(st2.this.filter_block, st2.this.append_offset)
                 IN IF f.panic THEN [st2 EXCEPT !.panic = "start_block"]
                    ELSE [st2 EXCEPT !.this.filter_block = f.builder]

\* TableBuilder::add
TableBuilder_add(cfg, st, k, v) ==
    IF st.this.closed THEN [st EXCEPT !.panic = "add: closed"]
    ELSE IF st.this.entries_count > 0 /\ ~(compare(k, st.this.last_key) >= 0)
    THEN [st EXCEPT !.panic = "add: order"]
    ELSE IF st.this.pending_index_entry /\ st.this.data_block.buf # <<>>
    THEN [st EXCEPT !.panic = "add: data block not empty"]
    ELSE LET st1 == IF st.this.pending_index_entry
                    THEN TbIndexAdd(cfg, st,
                                    find_shortest_separator(st.this.last_key, k), "add")
                    ELSE st
         IN IF st1.panic # "none" THEN st1
            ELSE IF ~add_asserts(st1.this.data_block, st1.this.data_fin,
                                 cfg.block_restart_interval, k)
            THEN [st1 EXCEPT !.panic = "data_block.add"]
            ELSE LET st2 == [st1 EXCEPT
                               !.this.filter_block.keys =
                                   IF st.this.has_filter THEN Append(@, k) ELSE @,
                               !.this.last_key = k,
                               !.this.entries_count = @ + 1,
                               !.this.data_block = add(@, cfg.block_restart_interval, k, v),
                               !.keys = Append(@, k)]
                 IN IF current_size_estimate(st2.this.data_block) >= cfg.block_size
                    THEN TableBuilder_flush(cfg, st2)
                    ELSE st2

\* TableBuilder::finish after its flush: the filter block, the meta block,
\* the index block and the footer
TbFinishBlocks(cfg, st) ==
    LET st1 == [st EXCEPT !.this.closed = TRUE]
        st2 == IF st.this.has_filter
               THEN TbWriteBlock(st1, "filter",
                                 FilterBlockBuilder_finish(st1.this.filter_block).buf)
               ELSE st1
        filter_block_handler == IF st.this.has_filter THEN TbLast(st2.blocks).handle
                                ELSE [offset |-> 0, size |-> 0]
        meta_raw_block == IF st.this.has_filter
                          THEN finish(add(BlockBuilder_new, cfg.block_restart_interval,
                                          BloomName, BlockHandle_encode(filter_block_handler)))
                          ELSE finish(BlockBuilder_new)
        st3 == TbWriteBlock(st2, "meta", meta_raw_block)
        meta_block_handle == TbLast(st3.blocks).handle
        st4 == IF st3.this.pending_index_entry
               THEN TbIndexAdd(cfg, st3, find_short_successor(st3.this.last_key, 1), "finish")
               ELSE st3
    IN IF st4.panic # "none" THEN st4
       ELSE LET st5 == TbWriteBlock(st4, "index", finish(st4.this.index_block))
                index_block_handle == TbLast(st5.blocks).handle
                footer == Footer_encode(
                              BlockHandle_new(u64_of(meta_block_handle.offset),
                                              u64_of(meta_block_handle.size)),
                              BlockHandle_new(u64_of(index_block_handle.offset),
                                              u64_of(index_block_handle.size)))
                st6 == [st5 EXCEPT !.this.index_block = BlockBuilder_new]
            IN IF footer.panic THEN [st6 EXCEPT !.panic = "footer"]
               ELSE [st6 EXCEPT !.file = Tb_write_at(@, footer.buf, st6.this.append_offset),
                                !.this.append_offset = @ + Len(footer.buf)]

\* TableBuilder::finish
TableBuilder_finish(cfg, st) ==
    LET st0 == TableBuilder_flush(cfg, st)
    IN IF st0.panic # "none" THEN st0 ELSE TbFinishBlocks(cfg, st0)

TbState == [this |-> tb_this, file |-> tb_file, blocks |-> tb_blocks,
            index |-> tb_index, keys |-> tb_keys, panic |-> tb_panic]

TbSet(st) ==
    /\ tb_this' = st.this
    /\ tb_file' = st.file
    /\ tb_blocks' = st.blocks
    /\ tb_index' = st.index
    /\ tb_keys' = st.keys
    /\ tb_panic' = st.panic

\* The builder as TableBuilder::new builds it, on an empty file
TbInit ==
    /\ \E bs \in TbBlockSizes, policy \in BOOLEAN :
         /\ tb_config = [block_size |-> bs, block_restart_interval |-> 2,
                         filter_policy |-> policy]
         /\ tb_this = [append_offset |-> 0,
                       data_block |-> BlockBuilder_new, data_fin |-> FALSE,
                       index_block |-> BlockBuilder_new, index_fin |-> FALSE,
                       last_key |-> <<>>, entries_count |-> 0, closed |-> FALSE,
                       has_filter |-> policy,
                       filter_block |->
                           IF policy
                           THEN start_block([keys |-> <<>>, filter_offsets |-> <<>>,
                                             buf |-> <<>>], 0).builder
                           ELSE [keys |-> <<>>, filter_offsets |-> <<>>, buf |-> <<>>],
                       pending_index_entry |-> FALSE,
                       pending_handle |-> [offset |-> 0, size |-> 0]]
    /\ tb_file = <<>>
    /\ tb_blocks = <<>>
    /\ tb_index = <<>>
    /\ tb_keys = <<>>
    /\ tb_panic = "none"

TbOpen == tb_panic = "none" /\ ~tb_this.closed

\* builder.add(key, value), the keys strictly increasing
TbAdd ==
    /\ TbOpen
    /\ tb_this.entries_count < MaxTbAdds
    /\ \E k \in TbKeys, v \in TbValues :
         /\ tb_this.entries_count > 0 => compare(k, tb_this.last_key) > 0
         /\ TbSet(TableBuilder_add(tb_config, TbState, k, v))
    /\ UNCHANGED tb_config
    /\ TbFrame

\* builder.flush()
TbFlush ==
    /\ TbOpen
    /\ tb_this.data_block.buf # <<>>
    /\ TbSet(TableBuilder_flush(tb_config, TbState))
    /\ UNCHANGED tb_config
    /\ TbFrame

\* builder.finish()
TbFinish ==
    /\ TbOpen
    /\ TbSet(TableBuilder_finish(tb_config, TbState))
    /\ UNCHANGED tb_config
    /\ TbFrame

TbNext == TbAdd \/ TbFlush \/ TbFinish

(***************************************************************************)
(*                          SPECIFICATIONS                                 *)
(***************************************************************************)

\* A component that a specification does not exercise rests in one state.
WalIdle == WalInit

VlogIdle ==
    /\ vlog_dir = <<>>
    /\ max_fid = 0
    /\ max_file_size = 1
    /\ current_file = [fid |-> 0, writen_len |-> 0]
    /\ active_files = {}
    /\ vlog_ptrs = <<>>
    /\ vlog_created = {}
    /\ vlog_reopens = 0
    /\ vlog_last_read = NoVlogRead

LockIdle == LockInit

SkipIdle == SkipInit

BlockIdle ==
    /\ block_restart_interval = 1
    /\ bb_buf = <<>>
    /\ restarts = <<0>>
    /\ last_key = <<>>
    /\ counter = 0
    /\ finished = FALSE
    /\ bb_added = <<>>
    /\ blk_scan = NoBlockScan
    /\ blk_seek = NoBlockSeek
    /\ blk_prev = NoBlockPrev
    /\ bb_step = [op |-> "new", key |-> <<>>]
    /\ bb_panic = FALSE

ArtIdle == ArtInit

ConcIdle == ConcInit

BloomIdle ==
    /\ bits_per_key = 0
    /\ bl_keys = <<>>
    /\ bl_filter = NoFilter
    /\ bl_query = NoBloomQuery

FiltIdle == FiltInit

OlcIdle == OlcInit

VintIdle == vi_value = Zero64 /\ vi_bytes = <<>> /\ vi_dec = NoVintDec

FootIdle ==
    /\ meta_index_handle = BlockHandle_new(Zero64, Zero64)
    /\ index_handle = BlockHandle_new(Zero64, Zero64)
    /\ ft_out = NoFooter

SepIdle == sep_start = <<>> /\ sep_limit = <<>> /\ sep_out = NoSep

MemIdle == MemInit

EntIdle ==
    /\ en_entry = [key |-> <<>>, value |-> <<>>, meta |-> 0]
    /\ en_buf = <<>>
    /\ en_damage = "new"
    /\ en_dec = NoDec

VconIdle ==
    /\ vc_files = [dir |-> <<>>, max_fid |-> 0,
                   current_file |-> [fid |-> 0, writen_len |-> 0], active_files |-> {}]
    /\ vc_mfs = 1
    /\ vc_lock = [writer |-> 0, readers |-> {}]
    /\ vc_w = [t \in 1..VconWriters |-> VconWriterIdle]
    /\ vc_r = [r \in 1..VconReaders |-> VconReaderIdle]
    /\ vc_ptrs = <<>>

VsetIdle ==
    /\ vs_dir = <<>>
    /\ vs_set = [vlog_files |-> {}, max_fid |-> 0, wirten_offset |-> 0,
                 max_file_size |-> 1, current_file |-> 0, buf |-> <<>>]
    /\ vs_ptrs = <<>>
    /\ vs_appends = 0

TbIdle ==
    /\ tb_config = [block_size |-> 1, block_restart_interval |-> 1, filter_policy |-> FALSE]
    /\ tb_this = <<>>
    /\ tb_file = <<>>
    /\ tb_blocks = <<>>
    /\ tb_index = <<>>
    /\ tb_keys = <<>>
    /\ tb_panic = "none"

InitWal == WalInit /\ VlogIdle /\ LockIdle /\ SkipIdle /\ BlockIdle /\ ArtIdle /\ ConcIdle /\ BloomIdle /\ FiltIdle /\ OlcIdle /\ VintIdle /\ FootIdle /\ SepIdle /\ MemIdle /\ EntIdle /\ VconIdle /\ VsetIdle /\ TbIdle

InitVlog == VlogInit /\ WalIdle /\ LockIdle /\ SkipIdle /\ BlockIdle /\ ArtIdle /\ ConcIdle /\ BloomIdle /\ FiltIdle /\ OlcIdle /\ VintIdle /\ FootIdle /\ SepIdle /\ MemIdle /\ EntIdle /\ VconIdle /\ VsetIdle /\ TbIdle

InitLock == LockInit /\ WalIdle /\ VlogIdle /\ SkipIdle /\ BlockIdle /\ ArtIdle /\ ConcIdle /\ BloomIdle /\ FiltIdle /\ OlcIdle /\ VintIdle /\ FootIdle /\ SepIdle /\ MemIdle /\ EntIdle /\ VconIdle /\ VsetIdle /\ TbIdle

InitSkip == SkipInit /\ WalIdle /\ VlogIdle /\ LockIdle /\ BlockIdle /\ ArtIdle /\ ConcIdle /\ BloomIdle /\ FiltIdle /\ OlcIdle /\ VintIdle /\ FootIdle /\ SepIdle /\ MemIdle /\ EntIdle /\ VconIdle /\ VsetIdle /\ TbIdle

InitBlock == BlockInit /\ WalIdle /\ VlogIdle /\ LockIdle /\ SkipIdle /\ ArtIdle /\ ConcIdle /\ BloomIdle /\ FiltIdle /\ OlcIdle /\ VintIdle /\ FootIdle /\ SepIdle /\ MemIdle /\ EntIdle /\ VconIdle /\ VsetIdle /\ TbIdle

InitArt == ArtInit /\ WalIdle /\ VlogIdle /\ LockIdle /\ SkipIdle /\ BlockIdle /\ ConcIdle /\ BloomIdle /\ FiltIdle /\ OlcIdle /\ VintIdle /\ FootIdle /\ SepIdle /\ MemIdle /\ EntIdle /\ VconIdle /\ VsetIdle /\ TbIdle

InitConc == ConcInit /\ WalIdle /\ VlogIdle /\ LockIdle /\ SkipIdle /\ BlockIdle /\ ArtIdle /\ BloomIdle /\ FiltIdle /\ OlcIdle /\ VintIdle /\ FootIdle /\ SepIdle /\ MemIdle /\ EntIdle /\ VconIdle /\ VsetIdle /\ TbIdle

InitBloom == BloomInit /\ WalIdle /\ VlogIdle /\ LockIdle /\ SkipIdle /\ BlockIdle /\ ArtIdle /\ ConcIdle /\ FiltIdle /\ OlcIdle /\ VintIdle /\ FootIdle /\ SepIdle /\ MemIdle /\ EntIdle /\ VconIdle /\ VsetIdle /\ TbIdle

InitFilt == FiltInit /\ WalIdle /\ VlogIdle /\ LockIdle /\ SkipIdle /\ BlockIdle /\ ArtIdle /\ ConcIdle /\ BloomIdle /\ OlcIdle /\ VintIdle /\ FootIdle /\ SepIdle /\ MemIdle /\ EntIdle /\ VconIdle /\ VsetIdle /\ TbIdle

InitOlc == OlcInit /\ WalIdle /\ VlogIdle /\ LockIdle /\ SkipIdle /\ BlockIdle /\ ArtIdle /\ ConcIdle /\ BloomIdle /\ FiltIdle /\ VintIdle /\ FootIdle /\ SepIdle /\ MemIdle /\ EntIdle /\ VconIdle /\ VsetIdle /\ TbIdle

InitVint == VintInit /\ WalIdle /\ VlogIdle /\ LockIdle /\ SkipIdle /\ BlockIdle /\ ArtIdle /\ ConcIdle /\ BloomIdle /\ FiltIdle /\ OlcIdle /\ FootIdle /\ SepIdle /\ MemIdle /\ EntIdle /\ VconIdle /\ VsetIdle /\ TbIdle

InitFoot == FootInit /\ WalIdle /\ VlogIdle /\ LockIdle /\ SkipIdle /\ BlockIdle /\ ArtIdle /\ ConcIdle /\ BloomIdle /\ FiltIdle /\ OlcIdle /\ VintIdle /\ SepIdle /\ MemIdle /\ EntIdle /\ VconIdle /\ VsetIdle /\ TbIdle

InitSep == SepInit /\ WalIdle /\ VlogIdle /\ LockIdle /\ SkipIdle /\ BlockIdle /\ ArtIdle /\ ConcIdle /\ BloomIdle /\ FiltIdle /\ OlcIdle /\ VintIdle /\ FootIdle /\ MemIdle /\ EntIdle /\ VconIdle /\ VsetIdle /\ TbIdle

InitMem == MemInit /\ WalIdle /\ VlogIdle /\ LockIdle /\ SkipIdle /\ BlockIdle /\ ArtIdle /\ ConcIdle /\ BloomIdle /\ FiltIdle /\ OlcIdle /\ VintIdle /\ FootIdle /\ SepIdle /\ EntIdle /\ VconIdle /\ VsetIdle /\ TbIdle

InitEnt == EntInit /\ WalIdle /\ VlogIdle /\ LockIdle /\ SkipIdle /\ BlockIdle /\ ArtIdle /\ ConcIdle /\ BloomIdle /\ FiltIdle /\ OlcIdle /\ VintIdle /\ FootIdle /\ SepIdle /\ MemIdle /\ VconIdle /\ VsetIdle /\ TbIdle

InitVcon == VconInit /\ WalIdle /\ VlogIdle /\ LockIdle /\ SkipIdle /\ BlockIdle /\ ArtIdle /\ ConcIdle /\ BloomIdle /\ FiltIdle /\ OlcIdle /\ VintIdle /\ FootIdle /\ SepIdle /\ MemIdle /\ EntIdle /\ VsetIdle /\ TbIdle

InitVset == VsetInit /\ WalIdle /\ VlogIdle /\ LockIdle /\ SkipIdle /\ BlockIdle /\ ArtIdle /\ ConcIdle /\ BloomIdle /\ FiltIdle /\ OlcIdle /\ VintIdle /\ FootIdle /\ SepIdle /\ MemIdle /\ EntIdle /\ VconIdle /\ TbIdle

InitTb == TbInit /\ WalIdle /\ VlogIdle /\ LockIdle /\ SkipIdle /\ BlockIdle /\ ArtIdle /\ ConcIdle /\ BloomIdle /\ FiltIdle /\ OlcIdle /\ VintIdle /\ FootIdle /\ SepIdle /\ MemIdle /\ EntIdle /\ VconIdle /\ VsetIdle

SpecWal == InitWal /\ [][WalNext]_vars

SpecWalFail == InitWal /\ [][WalFailNext]_vars

SpecVlog == InitVlog /\ [][VlogNext]_vars

SpecLock == InitLock /\ [][LockNext]_vars

SpecLockFair == InitLock /\ [][LockNext]_vars /\ LockFairness

SpecSkip == InitSkip /\ [][SkipNext]_vars

SpecBlock == InitBlock /\ [][BlockNext]_vars

SpecArt == InitArt /\ [][ArtNext]_vars

SpecConc == InitConc /\ [][ConcNext]_vars

SpecBloom == InitBloom /\ [][BloomNext]_vars

SpecFilt == InitFilt /\ [][FiltNext]_vars

SpecOlc == InitOlc /\ [][OlcNext]_vars

SpecVint == InitVint /\ [][VintNext]_vars

SpecFoot == InitFoot /\ [][FootNext]_vars

SpecSep == InitSep /\ [][SepNext]_vars

SpecMem == InitMem /\ [][MemNext]_vars

SpecEnt == InitEnt /\ [][EntNext]_vars

SpecVcon == InitVcon /\ [][VconNext]_vars

SpecVset == InitVset /\ [][VsetNext]_vars

SpecTb == InitTb /\ [][TbNext]_vars

(***************************************************************************)
(*                              PROPERTIES                                 *)
(***************************************************************************)

(* ---- write-ahead log ---- *)

\* The byte strings of the payloads written, in write order.
WrittenBytes(n) == [i \in 1..n |-> PayloadBytes(wal_written[i])]

\* C1: for every sequence of payloads written in order to a fresh file, read
\* on the undamaged file returns Ok with exactly those payloads in that order.
C1_RoundTrip ==
    (wal_read.kind # "none" /\ wal_bad = 0)
        => (wal_read.kind = "Ok" /\ wal_read.payloads = WrittenBytes(Len(wal_written)))

\* C35: after a write() that failed, a read does not panic and returns every
\* payload written successfully before the failure and every payload written
\* successfully after it.
C35_FailedWriteRecovery ==
    (wal_failed >= 0 /\ wal_read.kind # "none")
        => /\ wal_read.kind # "Panic"
           /\ \A i \in 1..Len(wal_written) :
                \E j \in 1..Len(wal_read.payloads) :
                    wal_read.payloads[j] = WrittenBytes(Len(wal_written))[i]

\* C36: in every record the writer emits (Full, First, Middle or Last), the
\* 16-bit length field of the header is the number of payload bytes of the
\* record.
C36_LengthField ==
    wal_bad = 0 =>
        \A i \in 1..Len(wal_file) :
            wal_file[i].kind = "rec" =>
                /\ wal_file[i].lenField = wal_file[i].data[3]
                /\ wal_file[i].size = 7 + wal_file[i].lenField

\* The damaged record, and the end of the bytes of its block that the file holds.
BadUnit == wal_file[wal_bad]

BlockEnd(u) == Min(((u.off \div BLOCK_SIZE) + 1) * BLOCK_SIZE, file_len(wal_file))

LenFieldIntact(u) == u.lenField = u.data[3] % U16

\* The record has a checksum mismatch or an unknown type byte (its length
\* field is as written).
BadCrcOrType(u) ==
    /\ LenFieldIntact(u)
    /\ \/ u.crc # Crc32(u.lenField, u.ty, u.data)
       \/ u.ty \notin {First, Middle, Last, Full}

\* The record's length field exceeds the bytes that remain in its block.
ImpossibleLen(u) == u.lenField > BlockEnd(u) - (u.off + 3)

\* The payloads all of whose records precede the damaged record.
PrefixBefore(u) == WrittenBytes(u.pid - 1)

\* C7: if a record has a CRC mismatch or an unknown type byte, read returns
\* Err with exactly the payloads completely reassembled from the records
\* before the first bad record, and no payload after it.
C7_CorruptionReturnsPrefix ==
    (wal_read.kind # "none" /\ wal_bad # 0 /\ BadCrcOrType(BadUnit))
        => (wal_read.kind = "Err" /\ wal_read.payloads = PrefixBefore(BadUnit))

\* C8: if a record's length field is impossible (it exceeds the bytes left in
\* its block), read does not panic: it returns the payloads reassembled before
\* that record together with a corruption error.
C8_ImpossibleLengthNoPanic ==
    (wal_read.kind # "none" /\ wal_bad # 0 /\ ImpossibleLen(BadUnit)
        /\ BlockEnd(BadUnit) - BadUnit.off > 7)
        => (wal_read.kind = "Err" /\ wal_read.payloads = PrefixBefore(BadUnit))

(* ---- value log ---- *)

\* C2: every pointer that write_entry returned reads back, through
\* read_entry, as the entry that was written: in the instance that wrote
\* it, across rotations of the active segment, and in an instance built
\* again on the same directory.
C2_VlogRoundTrip ==
    \A i \in 1..Len(vlog_ptrs) :
        read_entry(vlog_dir, current_file, active_files, vlog_ptrs[i].ptr).res
            = OkEntry(vlog_ptrs[i].entry)

\* C2 witness: after a reopen, entries written to at least two segments, one
\* of them before and one after the reopen, and the last read_entry returned
\* the entry of the first pointer.
C2_Witness ==
    /\ vlog_reopens > 0
    /\ Len(vlog_ptrs) >= 2
    /\ vlog_ptrs[1].ptr.file_id # vlog_ptrs[Len(vlog_ptrs)].ptr.file_id
    /\ vlog_ptrs[1].ptr.file_id \in active_files
    /\ vlog_last_read.ptr = vlog_ptrs[1].ptr
    /\ vlog_last_read.res = OkEntry(vlog_ptrs[1].entry)

\* The segments the set knows: the sealed ones and the active one
KnownSegments == active_files \cup {current_file.fid}

\* C9: read_entry resolves the pointer's file_id to the active or a sealed
\* segment and reads that segment; for a file_id that is neither, it fails
\* (ValueLogFileNotFound) and reads no other segment.
C9_ReadResolvesFileId ==
    vlog_last_read # NoVlogRead =>
        IF vlog_last_read.ptr.file_id \in KnownSegments
        THEN vlog_last_read.src = vlog_last_read.ptr.file_id
        ELSE vlog_last_read.src = -1 /\ ~vlog_last_read.res.ok

\* C10: a segment opened as a new one, at startup or on rotation, has an id
\* above every id present in the directory at that moment, so no existing
\* file is opened as new; this also for directories whose ids have gaps.
C10_FileIdsMonotone ==
    \A c \in vlog_created : \A f \in c.before : c.fid > f

\* C34: in every write_entry the append goes to the one active segment,
\* which is not a sealed one; the segment is sealed by this write_entry
\* exactly when its written length has reached max_file_size; and when
\* write_entry returns, the active segment is not sealed and its written
\* length is below max_file_size.
C34_SegmentLifecycle ==
    [][vlog_ptrs' # vlog_ptrs =>
         LET p == vlog_ptrs'[Len(vlog_ptrs')].ptr
         IN /\ p.file_id = current_file.fid
            /\ current_file.fid \notin active_files
            /\ \A f \in active_files : vlog_dir'[f] = vlog_dir[f]
            /\ (current_file.writen_len + p.len >= max_file_size)
                 <=> (current_file.fid \in active_files'
                        /\ current_file'.fid # current_file.fid)
            /\ active_files \subseteq active_files'
            /\ current_file'.fid \notin active_files'
            /\ current_file'.writen_len < max_file_size]_vars

(* ---- optimistic version lock ---- *)

\* The threads that hold a write guard
Holders == {t \in Threads : lock_pc[t] \in {"read", "write", "drop"}}

\* C3: at most one write guard exists at any time; when every thread has
\* taken its M write locks the counter is T x M and the version is unlocked,
\* so the final read() and its check_version() succeed.
C3_WriteLockExclusive ==
    /\ Cardinality(Holders) <= 1
    /\ (\A t \in Threads : lock_pc[t] = "done")
           => /\ prefix_len = LockThreads * LockRounds
              /\ check_version(version) = "Ok"
    /\ lock_final.done
           => lock_final.ok /\ lock_final.prefix_len = LockThreads * LockRounds

\* C3 witness: the final read succeeded on the full count after some thread
\* lost a compare_exchange and some thread found the node locked.
C3_Witness ==
    /\ lock_final.done /\ lock_final.ok
    /\ lock_final.prefix_len = LockThreads * LockRounds
    /\ "VersionMismatch" \in lock_err
    /\ "Locked" \in lock_err

\* C31: under weak fairness of every thread the contention scenario
\* terminates: every thread completes its M acquisitions, the final read runs,
\* and from then on the lock is unlocked and not obsolete.
C31_ContentionTerminates ==
    <>[](/\ \A t \in Threads : lock_pc[t] = "done" /\ lock_succ[t] = LockRounds
         /\ lock_final.done
         /\ check_version(version) = "Ok")

\* C31 witness: all threads have finished and the lock is unlocked after
\* write() failed in the retry loops both on a held lock and on a lost
\* compare_exchange.
C31_Witness ==
    /\ \A t \in Threads : lock_pc[t] = "done" /\ lock_succ[t] = LockRounds
    /\ lock_err = {"Locked", "VersionMismatch"}
    /\ check_version(version) = "Ok"
    /\ lock_final.done

(* ---- skip list ---- *)

\* The keys insert() was called with
Inserted == {sl_calls[i] : i \in 1..Len(sl_calls)}

\* The keys of S in ascending comparator order
RECURSIVE Ascending(_)
Ascending(S) ==
    IF S = {} THEN <<>>
    ELSE LET least == CHOOSE k \in S : \A o \in S : compare(k, o) <= 0
         IN <<least>> \o Ascending(S \ {least})

Reverse(seq) == [i \in 1..Len(seq) |-> seq[Len(seq) + 1 - i]]

\* C4: after the single writer's insertions of distinct keys, contains(k) is
\* true for exactly the inserted keys, the forward iteration yields them in
\* ascending order and the backward iteration in descending order.
C4_SkipListInsertScan ==
    /\ \A k \in SkipKeys : contains(SkipList, k) <=> k \in Inserted
    /\ sl_scan.done =>
         /\ sl_scan.found = Inserted
         /\ sl_scan.fwd = Ascending(Inserted)
         /\ sl_scan.bwd = Reverse(Ascending(Inserted))

(* ---- SSTable data block ---- *)

\* The entries with a key not below target
AtOrAbove(target) == {i \in 1..Len(bb_added) : compare(bb_added[i][1], target) >= 0}

\* C5: iterating the finished block, from seek_to_first with next() while
\* is_valid(), ends and yields exactly the pairs that were added, in order;
\* seek(k) leaves the iterator on the first entry whose key is not below k,
\* and invalid when there is none.
C5_BlockIterRoundTrip ==
    /\ blk_scan.done => blk_scan.ended /\ blk_scan.pairs = bb_added
    /\ blk_seek.done =>
         IF AtOrAbove(blk_seek.target) = {}
         THEN ~blk_seek.valid
         ELSE LET i == CHOOSE j \in AtOrAbove(blk_seek.target) :
                           \A o \in AtOrAbove(blk_seek.target) : j <= o
              IN /\ blk_seek.valid
                 /\ blk_seek.key = bb_added[i][1]
                 /\ blk_seek.value = bb_added[i][2]

(* ---- adaptive radix tree ---- *)

\* C6: with concurrent writers inserting distinct keys, no panic fires in
\* the tree, and every key is found by the get that follows the inserts.
C6_ArtConcurrentInsert ==
    /\ art_panics = {}
    /\ \A t \in ArtWriters : art_get[t] # "absent"

\* The nodes a reader meets walking level `level` from the head, at most
\* fuel of them
RECURSIVE Chain(_, _, _, _)
Chain(L, cur, level, fuel) ==
    LET nxt == get_next(L, cur, level)
    IN IF nxt = Null \/ fuel = 0 THEN <<>>
       ELSE <<nxt>> \o Chain(L, nxt, level, fuel - 1)

LevelChain(level) == Chain(csl, 0, level, Len(csl.nodes) + 1)

\* C11: while the single writer is anywhere inside insert, every level's
\* chain is strictly ascending and a sub-sequence of the chain below, every
\* node on a level's chain has that level's pointer stored, and a
\* contains(k) begun after insert(k) returned answers true.
C11_InsertUnderReaders ==
    /\ \A level \in 0..MaxConcHeight :
         LET ch == LevelChain(level)
         IN /\ \A j \in 1..Len(ch) - 1 :
                 compare(csl.nodes[ch[j]].key, csl.nodes[ch[j + 1]].key) < 0
            /\ \A j \in 1..Len(ch) :
                 /\ level < Len(csl.nodes[ch[j]].next)
                 /\ ch[j] = cw.new_node => level \in cw.init
                 /\ level > 0 =>
                      \E m \in 1..Len(LevelChain(level - 1)) :
                         LevelChain(level - 1)[m] = ch[j]
    /\ \A r \in 1..ConcReaders :
         cr[r].pc = "done" /\ cr[r].after => cr[r].result

\* a contains(k) of an inserted key that began while the writer was inside
\* a later insert, and ended with the new node linked at level 0 only
C11_Witness ==
    /\ cw.pc = "set" /\ cw.i = 1
    /\ \E r \in 1..ConcReaders :
         cr[r].pc = "done" /\ cr[r].after /\ cr[r].mid /\ cr[r].result

\* The last insert() was called with a key an earlier call had inserted
InsertedTwice ==
    /\ sl_calls # <<>>
    /\ \E i \in 1..Len(sl_calls) - 1 : sl_calls[i] = sl_calls[Len(sl_calls)]

\* C19: insert of a key the list holds panics and stores to no pointer: the
\* head, every tower and max_level are what they were, and the list holds
\* each inserted key once.
C19_InsertTwicePanics ==
    [][(Len(sl_calls') > Len(sl_calls) /\ InsertedTwice')
         => /\ sl_panic'
            /\ UNCHANGED <<sl_head, sl_nodes, max_level>>
            /\ IterForward(SkipList, saerch_first(SkipList)) = Ascending(Inserted)]_vars

C19_Witness == InsertedTwice /\ sl_panic /\ Len(sl_nodes) >= 2

\* The keys the list holds
Stored == {sl_nodes[i].key : i \in 1..Len(sl_nodes)}

\* C20: seek(t) leaves the iterator on the smallest stored key that is not
\* below t, and invalid when every stored key is below t.
C20_SeekLowerBound ==
    sl_seek.done =>
        LET above == {k \in Stored : compare(k, sl_seek.target) >= 0}
        IN IF above = {} THEN ~sl_seek.valid
           ELSE /\ sl_seek.valid
                /\ sl_seek.key = Ascending(above)[1]

\* seek of a target that is not stored lands on a greater key, past a
\* smaller one
C20_Witness ==
    /\ sl_seek.done /\ sl_seek.valid
    /\ sl_seek.key # sl_seek.target
    /\ \E k \in Stored : compare(k, sl_seek.target) < 0

C20_WitnessInvalid == sl_seek.done /\ ~sl_seek.valid /\ Stored # {}

(* ---- write-ahead log: framing and padding ---- *)

\* The indices in the file of the records of payload pid, in file order
RECURSIVE UnitsOf(_, _)
UnitsOf(pid, i) ==
    IF i > Len(wal_file) THEN <<>>
    ELSE IF wal_file[i].kind = "rec" /\ wal_file[i].pid = pid
         THEN <<i>> \o UnitsOf(pid, i + 1)
         ELSE UnitsOf(pid, i + 1)

\* The bytes left in the block at offset off of the file
RemainAt(off) == BLOCK_SIZE - (off % BLOCK_SIZE)

\* C13: on the file as written, a payload that fits the bytes left in the
\* block with its 7-byte header is one Full record; any other is a First
\* record that fills the block, Middle records of BLOCK_SIZE - 7 bytes each,
\* and one Last record with the rest, carrying the payload's bytes in order;
\* no record crosses a block boundary.
C13_Framing ==
    wal_bad = 0 =>
      \A j \in 1..Len(wal_written) :
        LET p == wal_written[j]
            us == UnitsOf(p.id, 1)
            n == Len(us)
            u(k) == wal_file[us[k]]
            remain == RemainAt(u(1).off)
        IN /\ n >= 1
           /\ \A k \in 1..n :
                /\ u(k).size = u(k).data[3] + 7
                /\ u(k).size <= RemainAt(u(k).off)
                /\ u(k).data[3] > 0 => u(k).data[1] = p.id
                /\ u(k).data[3] > 0 =>
                     u(k).data[2] = IF k = 1 THEN 0
                                    ELSE u(k - 1).data[2] + u(k - 1).data[3]
           /\ IF p.len + 7 <= remain
              THEN n = 1 /\ u(1).ty = Full /\ u(1).data[3] = p.len
              ELSE /\ n >= 2
                   /\ u(1).ty = First /\ u(1).data[3] = remain - 7
                   /\ \A k \in 2..n - 1 :
                        u(k).ty = Middle /\ u(k).data[3] = BLOCK_SIZE - 7
                   /\ u(n).ty = Last
                   /\ u(n).data[3] = p.len - (remain - 7) - (n - 2) * (BLOCK_SIZE - 7)
                   /\ u(n).data[3] > 0

\* one payload was split into First, Middle and Last, and a payload of
\* BLOCK_SIZE - 7 bytes written at a block start is one record filling it
C13_Witness ==
    /\ wal_bad = 0
    /\ \E i \in 1..Len(wal_file) : wal_file[i].ty = Middle
    /\ \E i \in 1..Len(wal_file) :
         /\ wal_file[i].ty = Full
         /\ wal_file[i].off % BLOCK_SIZE = 0
         /\ wal_file[i].size = BLOCK_SIZE

\* C14: a record that leaves 1..7 bytes of its block is followed by that
\* many padding bytes and whatever comes next starts a block; after every
\* write the block offset is 0 or more than 7 bytes of the block remain; the
\* file is written_block_len * BLOCK_SIZE + block_offset bytes long.
C14_Padding ==
    /\ \A i \in 1..Len(wal_file) :
         LET u == wal_file[i]
             left == RemainAt(u.off) - u.size
         IN (u.kind = "rec" /\ left > 0 /\ left <= 7) =>
              /\ i < Len(wal_file)
              /\ wal_file[i + 1].kind = "pad"
              /\ wal_file[i + 1].off = u.off + u.size
              /\ wal_file[i + 1].size = left
              /\ i + 2 <= Len(wal_file) => wal_file[i + 2].off % BLOCK_SIZE = 0
    /\ \A i \in 1..Len(wal_file) - 1 :
         wal_file[i + 1].off = wal_file[i].off + wal_file[i].size
    /\ block_offset = 0 \/ BLOCK_SIZE - block_offset > 7
    /\ file_len(wal_file) = written_block_len * BLOCK_SIZE + block_offset

\* a record left 1..7 bytes, they were padded, and a record follows at
\* the block boundary
C14_Witness ==
    \E i \in 2..Len(wal_file) - 1 :
        /\ wal_file[i].kind = "pad"
        /\ wal_file[i - 1].kind = "rec"
        /\ wal_file[i + 1].kind = "rec"
        /\ wal_file[i + 1].off % BLOCK_SIZE = 0

(* ---- block builder: restart points and assertions ---- *)

\* The entries encoded in buf[off..end): for each its offset and shared_len
RECURSIVE EntriesIn(_, _, _)
EntriesIn(buf, off, end) ==
    IF off >= end THEN <<>>
    ELSE LET sh == from_varint(buf, off)
             ns == from_varint(buf, off + sh.next)
             vl == from_varint(buf, off + sh.next + ns.next)
         IN <<[off |-> off, shared |-> sh.value]>>
            \o EntriesIn(buf, off + sh.next + ns.next + vl.next + ns.value + vl.value, end)

\* The entries of the builder's buffer, without the restart tail of finish
BuilderEntries ==
    EntriesIn(bb_buf, 0,
              IF finished THEN Len(bb_buf) - SIZE_U32 * (Len(restarts) + 1) ELSE Len(bb_buf))

\* The number of leading bytes a and b have in common
CommonPrefix(a, b) ==
    CHOOSE n \in 0..Min(Len(a), Len(b)) :
        /\ SubSeq(a, 1, n) = SubSeq(b, 1, n)
        /\ n < Min(Len(a), Len(b)) => a[n + 1] # b[n + 1]

\* The offsets of es[i..] whose index, counted from 0, is a multiple of r
RECURSIVE RestartOffsets(_, _, _)
RestartOffsets(es, i, r) ==
    IF i > Len(es) THEN <<>>
    ELSE (IF (i - 1) % r = 0 THEN <<es[i].off>> ELSE <<>>) \o RestartOffsets(es, i + 1, r)

\* add(k, k) for the keys ks[i..] on builder B
RECURSIVE AddAll(_, _, _, _)
AddAll(B, interval, ks, i) ==
    IF i > Len(ks) THEN B ELSE AddAll(add(B, interval, ks[i], ks[i]), interval, ks, i + 1)

\* "a", "ab", "abc", "acd", "adc", "bcd", "bde", "eee"
ExampleKeys ==
    << <<97>>, <<97, 98>>, <<97, 98, 99>>, <<97, 99, 100>>, <<97, 100, 99>>,
       <<98, 99, 100>>, <<98, 100, 101>>, <<101, 101, 101>> >>

\* C17: the restart array holds 0 first, and the offsets of the entries
\* whose index is a multiple of the restart interval; those entries have
\* shared_len 0 and every other entry has the length of the prefix it shares
\* with the key before it; the eight example keys at interval 3 give
\* restarts [0, 18, 44].
C17_RestartPoints ==
    LET es == BuilderEntries
        r == block_restart_interval
    IN /\ Len(es) = Len(bb_added)
       /\ restarts[1] = 0
       /\ restarts = IF es = <<>> THEN <<0>> ELSE RestartOffsets(es, 1, r)
       /\ \A i \in 1..Len(es) :
            es[i].shared = IF (i - 1) % r = 0 THEN 0
                           ELSE CommonPrefix(bb_added[i - 1][1], bb_added[i][1])
       /\ AddAll([buf |-> <<>>, restarts |-> <<0>>, last_key |-> <<>>, counter |-> 0],
                 3, ExampleKeys, 1).restarts = <<0, 18, 44>>

\* three entries at interval 2: the second shares a byte with the first,
\* the third is a restart point
C17_Witness ==
    /\ block_restart_interval = 2
    /\ Len(bb_added) = 3
    /\ Len(restarts) = 2
    /\ BuilderEntries[2].shared = 1

\* The builder's state
BuilderState == <<bb_buf, restarts, last_key, counter, finished>>

\* C18: add() and finish() on a finished builder, reset() on an unfinished
\* one, and add() of a key below the last key all panic, and leave the
\* builder and the bytes it has produced as they were.
C18_BuilderAssertions ==
    [][LET violates ==
              \/ bb_step'.op \in {"add", "finish"} /\ finished
              \/ bb_step'.op = "reset" /\ ~finished
              \/ /\ bb_step'.op = "add"
                 /\ bb_added # <<>>
                 /\ compare(bb_step'.key, bb_added[Len(bb_added)][1]) < 0
       IN violates => (bb_panic' /\ UNCHANGED BuilderState)]_vars

\* add() of a key below the last key panicked with an entry in the buffer
C18_Witness ==
    /\ bb_panic /\ ~finished
    /\ bb_step.op = "add"
    /\ bb_added # <<>>
    /\ compare(bb_step.key, last_key) < 0

C18_WitnessFinished == bb_panic /\ finished /\ bb_step.op \in {"add", "finish"}

C18_WitnessReset == bb_panic /\ ~finished /\ bb_step.op = "reset" /\ bb_added # <<>>

(* ---- Bloom filter ---- *)

BloomKeySet == {bl_keys[i] : i \in 1..Len(bl_keys)}

\* C16: build returns a filter, and may_contain on it is true for every key
\* the filter was built from.
C16_BloomNoFalseNegative ==
    /\ bl_filter.built => ~bl_filter.panic
    /\ (bl_query.done /\ bl_query.key \in BloomKeySet) =>
         (~bl_query.panic /\ bl_query.result)

(* ---- filter block ---- *)

\* The filter of index o >> 11 of the finished block exists and holds the
\* hash of key k
InFilterOf(o, k) ==
    LET R == FilterBlockReader_new(fb_buf)
        index == o \div FILTER_BASE
    IN /\ R.base_lg = FILTER_BASE_LG
       /\ index < R.filter_count
       /\ \E w \in 0..(Len(fb_buf) \div 4) :
            /\ get_u32_le(fb_buf, R.filter_offset + index * 4) + 4 * w + 4
                 <= get_u32_le(fb_buf, R.filter_offset + (index + 1) * 4)
            /\ get_u32_le(fb_buf, get_u32_le(fb_buf, R.filter_offset + index * 4) + 4 * w)
                 = basic_hash(k)

\* C15: on the finished block, a key added after start_block(o) and before
\* the next start_block is in the filter of index o >> 11, and
\* key_may_match(o, k) is true.
C15_FilterNoFalseNegative ==
    /\ fb_finished => \A p \in fb_added : InFilterOf(p[1], p[2])
    /\ (fb_match.done /\ <<fb_match.offset, fb_match.key>> \in fb_added) => fb_match.result

\* a block with two filters, and a key of the second one looked up
C15_Witness ==
    /\ fb_match.done /\ fb_match.result
    /\ fb_match.offset >= FILTER_BASE
    /\ <<fb_match.offset, fb_match.key>> \in fb_added
    /\ \E p \in fb_added : p[1] < FILTER_BASE /\ p[2] # fb_match.key

(* ---- optimistic read validation ---- *)

\* C12: read() fails exactly when a write guard is held or the node is
\* obsolete, so it succeeds again once the guard is dropped; and a read
\* guard's check_version or unlock returns Ok only if no write guard was
\* acquired and the node was not marked obsolete since the guard's read().
C12_ReadValidation ==
    \A r \in 1..OlcReaders :
        /\ olc_r[r].last = "read_ok" => ~olc_r[r].flag
        /\ olc_r[r].last = "read_err" => olc_r[r].flag
        /\ olc_r[r].last = "check_ok" => ~olc_r[r].flag

\* a guard read after a write guard was dropped validates while a writer is
\* between its load and its compare_exchange
C12_Witness ==
    \E r \in 1..OlcReaders :
        /\ olc_r[r].last = "check_ok"
        /\ olc_r[r].has /\ olc_r[r].snap >= 4
        /\ \E t \in 1..OlcWriters : olc_w[t].pc = "cas"

\* C32: ReadGuard::upgrade succeeds only if the node's version is unchanged
\* since the guard's read(): if a write guard was acquired (and released) or
\* the node marked obsolete in between, upgrade fails.
C32_UpgradeFromSnapshot ==
    \A r \in 1..OlcReaders :
        olc_r[r].last = "upgrade_ok" => ~olc_r[r].flag

\* Some thread acquires a write guard in this step
Acquires ==
    \/ \E t \in 1..OlcWriters : olc_w[t].pc # "held" /\ olc_w'[t].pc = "held"
    \/ \E r \in 1..OlcReaders : olc_r[r].pc # "held" /\ olc_r'[r].pc = "held"

\* Some thread takes a read guard in this step
TakesReadGuard == \E r \in 1..OlcReaders : ~olc_r[r].has /\ olc_r'[r].has

\* The number of write guards in existence
GuardsHeld ==
    Cardinality({t \in 1..OlcWriters : olc_w[t].pc = "held"})
    + Cardinality({r \in 1..OlcReaders : olc_r[r].pc = "held"})

\* C33: the lock bit is set exactly while a write guard exists, and the
\* version counter is the number of completed acquire/release cycles; the
\* obsolete bit is set only by the holder of the write guard and never
\* cleared, and once it is set no read(), write() or upgrade() gives a guard.
C33_LockWordProtocol ==
    /\ [](/\ is_locked(olc_version) <=> GuardHeld
          /\ GuardsHeld <= 1
          /\ olc_version \div 4 = olc_acquired - GuardsHeld
          /\ is_obsolted(olc_version) <=> olc_obsolete)
    /\ [][/\ (~is_obsolted(olc_version) /\ is_obsolted(olc_version')) => GuardHeld /\ GuardHeld'
          /\ is_obsolted(olc_version) => is_obsolted(olc_version')
          /\ is_obsolted(olc_version) => ~Acquires /\ ~TakesReadGuard]_vars

\* C33 witness: the node was marked obsolete under a write guard, the guard
\* was released after one full cycle, and the upgrade() of a read guard failed
C33_Witness ==
    /\ is_obsolted(olc_version) /\ ~is_locked(olc_version)
    /\ olc_version \div 4 = 1
    /\ \E r \in 1..OlcReaders : olc_r[r].has /\ olc_r[r].last = "upgrade_err"
    /\ \E t \in 1..OlcWriters : olc_w[t].pc = "idle"

(* ---- varint codec ---- *)

\* Whether v >= 2^k
AtLeastPow2(v, k) == \E i \in (k + 1)..64 : v[i] = 1

\* The length of the canonical LEB128 encoding: one byte, and one more for
\* every 7 bits the value needs beyond the first 7
CanonicalLen(v) == 1 + Cardinality({j \in 1..9 : AtLeastPow2(v, 7 * j)})

\* C28: decoding the varint encoding of a u64 returns the value, and the
\* encoding has the canonical LEB128 length: every byte but the last carries
\* the continuation bit, and 1 to 10 bytes by the size of the value
C28_VarintRoundTrip ==
    /\ vi_bytes # <<>> =>
          /\ Len(vi_bytes) = CanonicalLen(vi_value)
          /\ \A j \in 1..Len(vi_bytes) : (vi_bytes[j] >= 128) = (j < Len(vi_bytes))
    /\ vi_dec.done => vi_dec.ok /\ vi_dec.value = vi_value

\* u64::MAX was encoded in 10 bytes and decoded
C28_Witness ==
    /\ vi_value = Ones64(64)
    /\ Len(vi_bytes) = 10
    /\ vi_dec.done /\ vi_dec.ok

(* ---- SSTable footer ---- *)

\* C21: Footer::encode returns exactly 48 bytes for every pair of handles:
\* the varint-encoded handles at the front, the magic as the last 8 bytes,
\* little-endian, and its length assertion never fires
C21_FooterIs48Bytes ==
    ft_out.done =>
        /\ ~ft_out.panic
        /\ Len(ft_out.buf) = 48
        /\ LET handles == encode_to(meta_index_handle) \o encode_to(index_handle)
           IN /\ SubSeq(ft_out.buf, 1, Len(handles)) = handles
              /\ SubSeq(ft_out.buf, 41, 48) = <<66, 0, 199, 159, 10, 1, 0, 0>>

(* ---- separators ---- *)

\* The string after s among the byte strings of s's length, <<>> when s is
\* the last one
RECURSIVE NextOfLen(_)
NextOfLen(s) ==
    IF s = <<>> THEN <<>>
    ELSE IF s[Len(s)] < 255 THEN [s EXCEPT ![Len(s)] = @ + 1]
    ELSE LET p == NextOfLen(SubSeq(s, 1, Len(s) - 1))
         IN IF p = <<>> THEN <<>> ELSE Append(p, 0)

\* Whether some byte string of length k < Len(start) lies in [start, limit):
\* the least string of length k above start is the successor of start's
\* prefix of length k
InRangeOfLen(start, limit, k) ==
    LET least == NextOfLen(SubSeq(start, 1, k))
    IN least # <<>> /\ compare(least, limit) < 0

\* The length of the shortest byte string in [start, limit)
ShortestLen(start, limit) ==
    LET ks == {k \in 0..(Len(start) - 1) : InRangeOfLen(start, limit, k)}
    IN IF ks = {} THEN Len(start) ELSE CHOOSE k \in ks : \A j \in ks : k <= j

FirstDiff(a, b) ==
    LET ds == {i \in 1..Min(Len(a), Len(b)) : a[i] # b[i]}
    IN IF ds = {} THEN 0 ELSE CHOOSE i \in ds : \A j \in ds : i <= j

VisibleAt(user_key, snap) ==
    {i \in 1..Len(mt_calls) : mt_calls[i].key = user_key /\ mt_calls[i].seq <= snap}

\* C23: get(key, snapshot_seq) returns the newest entry of key whose
\* sequence number is at most snapshot_seq, and None when there is none
C23_SnapshotGet ==
    mt_get.done =>
        LET vis == VisibleAt(mt_get.key, mt_get.seq)
        IN IF vis = {} THEN ~mt_get.res.some
           ELSE LET newest == CHOOSE i \in vis : \A j \in vis : mt_calls[j].seq <= mt_calls[i].seq
                IN mt_get.res = mt_calls[newest].ptr

\* C24: the memtable's order sorts the entries by user key ascending,
\* bytewise, and entries of one user key by decreasing sequence number
C24_EntryOrder ==
    \A i \in 1..(Len(mt_skl) - 1) :
        LET a == mt_skl[i]
            b == mt_skl[i + 1]
        IN \/ compare(key_of(a), key_of(b)) < 0
           \/ /\ key_of(a) = key_of(b)
              /\ cmp_u64(seq_of(a), seq_of(b)) > 0

\* C25: with pairwise different (key, seq), get(key, seq) returns the
\* pointer inserted with that key and seq, and None for a (key, seq) that
\* was never inserted
C25_ExactGet ==
    mt_get.done =>
        LET hits == {i \in 1..Len(mt_calls) :
                        mt_calls[i].key = mt_get.key /\ mt_calls[i].seq = mt_get.seq}
        IN IF hits = {} THEN ~mt_get.res.some
           ELSE \A i \in hits : mt_get.res = mt_calls[i].ptr

\* a key inserted at two sequence numbers, and the older one read back
C25_Witness ==
    /\ mt_get.done /\ mt_get.res.some
    /\ \E i, j \in 1..Len(mt_calls) :
         /\ i < j /\ mt_calls[i].key = mt_calls[j].key
         /\ mt_calls[i].key = mt_get.key /\ mt_calls[i].seq = mt_get.seq

\* a get between two inserted sequence numbers of the key returns None
C25_WitnessNone ==
    /\ mt_get.done /\ ~mt_get.res.some
    /\ \E i \in 1..Len(mt_calls) :
         mt_calls[i].key = mt_get.key /\ mt_calls[i].seq < mt_get.seq

(* ---- value-log entry codec ---- *)

\* C26: for every key, value (also the empty value) and meta tag, decode of
\* the encoding of the entry succeeds and returns the same key, value and
\* meta
C26_EntryRoundTrip ==
    /\ en_damage = "none" => Len(en_buf) = ENTRY_HEADER_SIZE + Len(en_entry.key) + Len(en_entry.value) + 4
    /\ (en_dec.done /\ en_damage = "none") =>
          /\ en_dec.ok
          /\ en_dec.key = en_entry.key
          /\ en_dec.value = en_entry.value
          /\ en_dec.meta = en_entry.meta

\* an entry with an empty value was encoded and decoded
C26_Witness ==
    /\ en_dec.done /\ en_damage = "none" /\ en_dec.ok
    /\ en_entry.value = <<>> /\ en_entry.key # <<>>

\* The buffer is shorter than the header and the checksum
TooShort(buf) == Len(buf) < ENTRY_HEADER_SIZE + 4

\* The lengths the buffer declares do not fit in it
LengthsExceed(buf) ==
    /\ ~TooShort(buf)
    /\ GetU32(buf, 0) + GetU32(buf, 4) + ENTRY_HEADER_SIZE + 4 > Len(buf)

\* The checksum stored after the value is not the checksum of the bytes
\* before it
CrcDiffers(buf) ==
    /\ ~TooShort(buf) /\ ~LengthsExceed(buf)
    /\ LET n == ENTRY_HEADER_SIZE + GetU32(buf, 0) + GetU32(buf, 4)
       IN GetU32(buf, n) # crc32fast_hash(SubSeq(buf, 1, n))

\* C27: decode returns an error, and no entry, for a buffer shorter than 13
\* bytes, for one whose declared lengths exceed it, and for one whose stored
\* CRC differs from the computed one
C27_DecodeRejects ==
    en_dec.done =>
        ((TooShort(en_buf) \/ LengthsExceed(en_buf) \/ CrcDiffers(en_buf)) => ~en_dec.ok)

\* a changed byte under the checksum was rejected
C27_Witness ==
    /\ en_dec.done /\ ~en_dec.ok
    /\ en_damage = "byte" /\ CrcDiffers(en_buf)

C27_WitnessShort == en_dec.done /\ ~en_dec.ok /\ en_damage = "short" /\ TooShort(en_buf)

C27_WitnessLengths == en_dec.done /\ ~en_dec.ok /\ LengthsExceed(en_buf)

(* ---- value log under concurrent callers ---- *)

\* The bytes a pointer designates
RangeOf(ptr) == {<<ptr.file_id, o>> : o \in ptr.offset..(ptr.offset + ptr.len - 1)}

\* C29: concurrent write_entry calls are serialized by the exclusive lock:
\* no two are between taking the lock and returning at once, and none while
\* a read_entry holds the shared lock; the pointers returned designate
\* pairwise disjoint byte ranges, each holding its caller's entry bytes; a
\* read_entry never runs in the middle of an append or a rotation and
\* returns the entry written
C29_WritesSerialized ==
    /\ Cardinality({t \in 1..VconWriters : vc_w[t].pc # "idle"}) <= 1
    /\ (\E r \in 1..VconReaders : vc_r[r].pc = "locked") =>
          \A t \in 1..VconWriters : vc_w[t].pc = "idle"
    /\ \A i, j \in 1..Len(vc_ptrs) :
          i # j => RangeOf(vc_ptrs[i].ptr) \cap RangeOf(vc_ptrs[j].ptr) = {}
    /\ \A i \in 1..Len(vc_ptrs) :
          LET p == vc_ptrs[i].ptr
          IN /\ p.file_id \in DOMAIN vc_files.dir
             /\ p.offset + p.len <= Len(vc_files.dir[p.file_id])
             /\ SubSeq(vc_files.dir[p.file_id], p.offset + 1, p.offset + p.len)
                  = encode(vc_ptrs[i].entry)
    /\ \A r \in 1..VconReaders :
          vc_r[r].done =>
              /\ ~vc_r[r].mid
              /\ \E i \in 1..Len(vc_ptrs) :
                    vc_ptrs[i].ptr = vc_r[r].ptr /\ vc_r[r].res = OkEntry(vc_ptrs[i].entry)

\* the two tasks have both written into one segment, and a read has returned
\* while a task waits for the lock
C29_Witness ==
    /\ Len(vc_ptrs) >= 2
    /\ vc_ptrs[1].ptr.file_id = vc_ptrs[2].ptr.file_id
    /\ \E r \in 1..VconReaders : vc_r[r].done
    /\ \E t \in 1..VconWriters : vc_w[t].pc = "appended"

(* ---- batched value log ---- *)

\* C30: the pointer returned for every entry passed to append, also across
\* rotations, locates the entry: bytes [offset, offset + len) of segment
\* file_id are the entry's encoding and decode to it
C30_AppendPointers ==
    \A i \in 1..Len(vs_ptrs) :
        LET p == vs_ptrs[i].ptr
        IN /\ p.file_id \in DOMAIN vs_dir
           /\ p.len = Len(encode(vs_ptrs[i].entry))
           /\ p.offset + p.len <= Len(vs_dir[p.file_id])
           /\ decode(SubSeq(vs_dir[p.file_id], p.offset + 1, p.offset + p.len))
                = OkEntry(vs_ptrs[i].entry)

(* ---- table builder ---- *)

\* The data blocks written so far, in file order
TbDataBlocks == SelectSeq(tb_blocks, LAMBDA b : b.kind = "data")

\* C37: for keys added in strictly increasing order every flushed data block
\* gets exactly one index entry, at the next add or at finish: at any moment
\* the index holds one entry for each flushed block but the last while that
\* one's entry is pending, in block order; the entry's key is at least the
\* block's last key and below the first key that follows the block, its value
\* is the encoding of the block's handle, and the assertions on the pending
\* entry never fire
C37_IndexDeferral ==
    LET data == TbDataBlocks
        pending == tb_this # <<>> /\ tb_this.pending_index_entry
    IN /\ tb_panic \notin {"add: data block not empty", "flush: pending", "index_block.add"}
       /\ Len(tb_index) = Len(data) - (IF pending THEN 1 ELSE 0)
       /\ pending => tb_keys = <<>> /\ tb_this.data_block.buf = <<>>
       /\ (tb_this # <<>> /\ tb_this.closed /\ tb_panic \in {"none", "footer"}) => ~pending
       /\ \A i \in 1..Len(tb_index) :
            LET e == tb_index[i]
                b == data[i]
                following == IF i < Len(data) THEN data[i + 1].keys ELSE tb_keys
            IN /\ b.keys # <<>>
               /\ compare(e.key, TbLast(b.keys)) >= 0
               /\ following # <<>> => compare(e.key, following[1]) < 0
               /\ e.at = "add" => following # <<>>
               /\ e.at = "finish" => i = Len(data) /\ tb_this.closed
               /\ e.value = BlockHandle_encode(b.handle)
               /\ i > 1 => compare(tb_index[i - 1].key, e.key) < 0

\* a finished table of two data blocks or more whose last index entry was
\* written by finish and an earlier one by add
C37_Witness ==
    /\ tb_this # <<>> /\ tb_this.closed
    /\ Len(tb_index) >= 2
    /\ Len(tb_index) = Len(TbDataBlocks)
    /\ tb_index[1].at = "add"
    /\ TbLast(tb_index).at = "finish"
    /\ Len(tb_index[1].key) < Len(TbLast(TbDataBlocks[1].keys))

\* C38: every handle the builder records for a block it writes has the file
\* offset of the block's first byte and the length of its content, the bytes
\* at the handle are the block, and the blocks follow one another at five
\* bytes' distance
C38_HandlesLocateBlocks ==
    \A i \in 1..Len(tb_blocks) :
        LET b == tb_blocks[i]
        IN /\ b.handle.offset = b.start
           /\ b.handle.size = Len(b.content)
           /\ b.handle.offset + b.handle.size <= Len(tb_file)
           /\ SubSeq(tb_file, b.handle.offset + 1, b.handle.offset + b.handle.size)
                = b.content
           /\ b.start = IF i = 1 THEN 0
                        ELSE tb_blocks[i - 1].start + Len(tb_blocks[i - 1].content) + 5

(* ---- filter ranges ---- *)

\* The keys added in the range of offset o
KeysInRange(o) == {p[2] : p \in {q \in fb_added : shr(q[1], FILTER_BASE_LG) = shr(o, FILTER_BASE_LG)}}

\* The policy has no false positive for key k on the keys of o's range
NoFalsePositive(o, k) == \A k2 \in KeysInRange(o) : basic_hash(k2) # basic_hash(k)

\* C39 as stated: with a policy that has no false positives for the tested
\* keys, key_may_match(o, k) is false when k was added only under offsets of
\* other ranges, and false for every key when no key was added in o's range,
\* also for a builder that received no keys
C39_RangesIsolated ==
    (fb_match.done /\ NoFalsePositive(fb_match.offset, fb_match.key)) => ~fb_match.result

\* C39, amended: with a policy that has no false positives for the tested
\* keys, key_may_match(o, k) is false when k was not added in o's range and
\* the range lies below the reader's filter count (an empty filter is
\* generated for each skipped range); for a range at or beyond the filter
\* count, and so for every offset of a builder that received no calls before
\* finish, it is true
C39_RangesIsolatedBelowCount ==
    fb_match.done =>
        LET R == FilterBlockReader_new(fb_buf)
            index == shr(fb_match.offset, FILTER_BASE_LG)
        IN /\ (index < R.filter_count /\ NoFalsePositive(fb_match.offset, fb_match.key))
                => ~fb_match.result
           /\ index >= R.filter_count => fb_match.result
           /\ fb_calls = 0 => R.filter_count = 0

\* a key added in one range is asked for at an offset of a skipped range
\* between two ranges that have keys, and does not match
C39_Witness ==
    /\ fb_match.done /\ ~fb_match.result
    /\ KeysInRange(fb_match.offset) = {}
    /\ \E p \in fb_added : p[2] = fb_match.key /\ p[1] < fb_match.offset
    /\ \E p \in fb_added : p[1] > fb_match.offset

(* ---- BlockIter::prev ---- *)

\* C40: prev() on a valid iterator leaves it on the entry before the current
\* one, and on the first entry of the block it leaves the iterator invalid;
\* it does not panic
C40_PrevStepsBack ==
    (blk_prev.done /\ blk_prev.was_valid) =>
        /\ blk_prev.status # "panic"
        /\ IF blk_prev.pos = 0 THEN ~blk_prev.valid
           ELSE blk_prev.valid /\ blk_prev.key = bb_added[blk_prev.pos][1]

====
